---- MODULE Spec2Model ----
(***************************************************************************)
(* Broadcast distribution and recall of zhenxun_bot                        *)
(* (zhenxun/builtin_plugins/superuser/broadcast).                          *)
(*                                                                         *)
(* The model follows BroadcastManager (broadcast_manager.py), the target   *)
(* resolution and the notifying wrapper of message_processor.py and the    *)
(* two command handlers of __init__.py.  Every await of the code (group    *)
(* directory lookup, block-flag lookup, send, delete, sleep) ends an       *)
(* action, so that the steps of the model are the pieces of code asyncio   *)
(* runs without suspension.                                                *)
(***************************************************************************)
EXTENDS Integers, Sequences, FiniteSets, TLC

\* ------------------------------------------------------------------ bounds
\* number of group scenes the platform directory holds
NumGroups == 2
\* number of commands the handlers take in one behaviour of SpecHandlers
MaxOps == 3
\* number of calls of BroadcastManager in one behaviour of Spec
MaxCalls == 2
\* number of segments of a message given to a conversion
MaxSegs == 2
\* number of raw nodes of a forward bundle given to the resolver
MaxNodes == 2
\* number of forward bundles nested in one another in an input
MaxNest == 4
\* largest depth argument given to _extract_content_from_message
MaxDepthArg == 4

\* --------------------------------------------------------------- constants
\* random.randint(1, 3): bounds of the pacing sleep after a send
PaceMin == 1
PaceMax == 3
\* retcodes of ActionFailed that recall_last_broadcast looks at
RetcodeNotFound == 100
RetcodeDeleteFailed == 300
\* Python's None / empty string of an id field
None == 0

\* the tasks that run handlers; "A" is the task of the serialized runs
Procs == {"A", "B"}
MainProc == "A"

\* ----------------------------------------------------------------- helpers
\* the elements of s at the positions in I, in the order of s
SelectIdx(s, I) ==
    LET F[n \in 0..Len(s)] ==
            IF n = 0 THEN <<>>
            ELSE IF n \in I THEN Append(F[n - 1], s[n]) ELSE F[n - 1]
    IN  F[Len(s)]

\* a GroupConsole row: group_id and channel_id (None when absent)
Group(g, c) == [group_id |-> g, channel_id |-> c]

\* a row without group id (no resolvable address)
NoAddressGroup == Group(None, None)

\* the bots a handler can run on: platform scope and adapter class; a bot
\* without interface has platform "unknown"
Bots == {[platform |-> "qq", v11 |-> TRUE],
         [platform |-> "qq", v11 |-> FALSE],
         [platform |-> "other", v11 |-> FALSE],
         [platform |-> "unknown", v11 |-> FALSE]}

\* interface.get_scenes(parent_scene_id = g): scene 1 has one channel
ChannelsOf(g) == IF g = 1 THEN <<Group(g, 1)>> ELSE <<>>

\* PlatformUtils.get_group_list(bot): nothing for a bot without interface
get_group_list(b) ==
    LET F[n \in 0..NumGroups] ==
            IF n = 0 THEN <<>>
            ELSE F[n - 1] \o <<Group(n, None)>>
                 \o (IF b.platform # "qq" THEN ChannelsOf(n) ELSE <<>>)
    IN  IF b.platform = "unknown" THEN <<>> ELSE F[NumGroups]

\* the None that get_target answers when nothing addresses a target
NoTarget == [id |-> None, parent_id |-> None, channel |-> FALSE]

\* PlatformUtils.get_target(group_id, channel_id)
get_target(g) ==
    IF g.group_id # None /\ g.channel_id # None
        THEN [id |-> g.channel_id, parent_id |-> g.group_id, channel |-> TRUE]
    ELSE IF g.group_id # None
        THEN [id |-> g.group_id, parent_id |-> None, channel |-> FALSE]
    ELSE NoTarget

\* group_key of _broadcast_normal: "gid:cid" with a channel, else str(gid)
NormalKey(g) ==
    IF g.channel_id # None THEN <<g.group_id, g.channel_id>> ELSE <<g.group_id>>

\* group_key of _broadcast_forward: group.group_id or group.channel_id
ForwardKey(g) ==
    IF g.group_id # None THEN <<g.group_id>> ELSE <<g.channel_id>>

GroupKey(r, g) == IF r = "forward" THEN ForwardKey(g) ELSE NormalKey(g)

\* ------------------------------------------------------ messages and routes
\* A broadcast message, as far as the routing of send_to_specific_groups
\* looks at it: its segments ("text", "ref" = Reference with nodes) and
\* whether the nodes of a Reference convert to no V11 node at all.
Messages == {[segs |-> <<"text">>, void |-> FALSE],
             [segs |-> <<"ref">>, void |-> FALSE],
             [segs |-> <<"ref">>, void |-> TRUE],
             [segs |-> <<"text", "ref">>, void |-> FALSE]}

is_forward_broadcast(m) == \E i \in 1..Len(m.segs) : m.segs[i] = "ref"

\* number of V11 nodes send_to_specific_groups builds for a forward broadcast
V11NodeCount(m) ==
    IF Len(m.segs) = 1 /\ m.segs[1] = "ref"
        THEN (IF m.void THEN 0 ELSE 1)
        ELSE 1

\* faulty variant: a forward segment among other segments goes the ordinary way
RouteOf_SingleSegmentOnly(b, m) ==
    IF b.platform = "qq" /\ b.v11 /\ m.segs = <<"ref">>
        THEN (IF V11NodeCount(m) = 0 THEN "empty" ELSE "forward")
        ELSE "normal"

\* the branch send_to_specific_groups takes for a non-empty target list
RouteOf(b, m) ==
    IF b.platform = "qq" /\ b.v11 /\ is_forward_broadcast(m)
        THEN (IF V11NodeCount(m) = 0 THEN "empty" ELSE "forward")
        ELSE "normal"

\* the send calls of send_to_specific_groups for n targets that are all
\* available: none for an empty list or empty forward nodes, else one call
\* per target, all of the loop the route selects
SendCalls(b, m, n) ==
    IF n = 0 \/ RouteOf(b, m) = "empty"
        THEN <<>>
        ELSE [i \in 1..n |-> IF RouteOf(b, m) = "forward"
                                 THEN "send_group_forward_msg"
                                 ELSE "message.send"]

\* ----------------------------------------------------------------- receipts
\* raw message ids as a transport hands them over
IntId(n) == [t |-> "int", v |-> n]
StrId(n) == [t |-> "str", v |-> n]
BadStrId == [t |-> "badstr", v |-> None]
NoneId == [t |-> "none", v |-> None]

\* receipts that carry the id n in one of the accepted shapes
GoodReceipts(n) ==
    {[shape |-> "dict", message_id |-> IntId(n)],
     [shape |-> "dict", message_id |-> StrId(n)],
     [shape |-> "receipt", msg_ids |-> <<[shape |-> "dict", message_id |-> IntId(n)]>>],
     [shape |-> "receipt", msg_ids |-> <<[shape |-> "raw", message_id |-> IntId(n)]>>],
     [shape |-> "receipt", msg_ids |-> <<[shape |-> "raw", message_id |-> StrId(n)]>>]}

\* receipts of a successful send from which no integer id can be taken
IdlessReceipts ==
    {[shape |-> "dict", message_id |-> BadStrId],
     [shape |-> "dict_without_id"],
     [shape |-> "receipt", msg_ids |-> <<>>],
     [shape |-> "receipt", msg_ids |-> <<[shape |-> "dict", message_id |-> NoneId]>>],
     [shape |-> "receipt", msg_ids |-> <<[shape |-> "raw", message_id |-> BadStrId]>>],
     [shape |-> "receipt", msg_ids |-> <<[shape |-> "object"]>>],
     [shape |-> "other"]}

\* int(msg_id): None stands for ValueError / TypeError
IntOf(raw) == IF raw.t \in {"int", "str"} THEN raw.v ELSE None

\* faulty variant: only the dict shape of a result is understood
ExtractedId_DictOnly(result) ==
    IF result.shape = "dict" THEN IntOf(result.message_id) ELSE None

\* the id _extract_message_id_from_result records for a result, or None
ExtractedId(result) ==
    IF result.shape = "dict"
        THEN IntOf(result.message_id)
    ELSE IF result.shape = "receipt" /\ Len(result.msg_ids) > 0
        THEN LET first_id_info == result.msg_ids[1]
             IN  IF first_id_info.shape \in {"dict", "raw"}
                     THEN (IF first_id_info.message_id.t = "none"
                               THEN None
                               ELSE IntOf(first_id_info.message_id))
                     ELSE None
    ELSE None

\* faulty variant: an entry that is there is kept, the first writer wins
DictSet_KeepsExisting(d, k, v) ==
    IF \E i \in 1..Len(d) : d[i].key = k
        THEN d
        ELSE Append(d, [key |-> k, id |-> v])

\* d[k] = v on an insertion-ordered dict kept as a list of records
DictSet(d, k, v) ==
    IF \E i \in 1..Len(d) : d[i].key = k
        THEN [i \in 1..Len(d) |-> IF d[i].key = k THEN [key |-> k, id |-> v] ELSE d[i]]
        ELSE Append(d, [key |-> k, id |-> v])

\* faulty variant: the clear does nothing
clear_KeepsRecords(d) == d

\* clear_last_broadcast_msg_ids: the map after cls._last_broadcast_msg_ids.clear()
clear_last_broadcast_msg_ids(d) == <<>>

\* faulty variant: the map is rebuilt with the new record alone
ExtractMessageId_Rebuilds(d, result, group_key) ==
    IF ExtractedId(result) # None
        THEN <<[key |-> group_key, id |-> ExtractedId(result)]>>
        ELSE d

\* _extract_message_id_from_result: the map after handling one result
ExtractMessageId(d, result, group_key) ==
    IF ExtractedId(result) # None
        THEN DictSet(d, group_key, ExtractedId(result))
        ELSE d


\* ---------------------------------------------------------- message content
\* MAX_FORWARD_DEPTH of message_processor.py
MAX_FORWARD_DEPTH == 3

\* the fixed texts of the placeholders
TooDeepText == "nested forward too deep, omitted"
FetchFailedText == "nested forward fetch failed"
ProcessErrorText == "error while processing nested forward"
UnresolvableText == "nested forward cannot be resolved"
EmptyContentText == "nested forward content is empty"

\* what a segment carries: the field it is kept in and its value.  Fields of
\* neutral media: url, path, path_uri (a path that is a file:/// URI, and
\* path_uri_uri one of such a URI again),
\* raw_bytes, raw_b64 (raw is a str "base64://..."), raw_str (raw is another
\* str), empty.  Fields of wire data: text, text_int ("text" is not a str),
\* url, file, file_uri ("file:///" + path), file_uri_uri, file_b64 ("base64://" + valid
\* base64), file_badb64 ("base64://" + invalid base64), qq, qq_int ("qq" is
\* not a str), empty ({}), nodata (data is None), nodict (data is not a dict)
Data(f, v) == [f |-> f, v |-> v]
NoData == Data("empty", "")

\* forward_content of a wire forward segment: its form (none: absent or
\* falsy; list; json_list: a str that parses to a list; json_other: any other
\* str; other: a truthy value of another type) and the raw nodes it holds
Inline(form, nodes) == [form |-> form, nodes |-> nodes]
NoInline == Inline("none", <<>>)

\* what bot.call_api("get_forward_msg") answers: a list, {"messages": ...},
\* {"data": {"message": ...}}, another dict, ActionFailed, another exception
Answer(kind, nodes) == [kind |-> kind, nodes |-> nodes]
NoAnswer == Answer("none", <<>>)

\* the forward part of a wire segment: id (or resid), the answer the
\* transport has for that id, and the inline content
Forward(fid, answer, content) == [fid |-> fid, answer |-> answer, content |-> content]
NoForward == Forward("", NoAnswer, NoInline)

\* a segment: neutral (uniseg object), wire (V11MessageSegment or dict with
\* type and data) or junk (any other object)
Seg(rep, type, data, nodes, fwd) ==
    [rep |-> rep, type |-> type, data |-> data, nodes |-> nodes, fwd |-> fwd]

\* neutral segments
Text(t) == Seg("uni", "text", Data("text", t), <<>>, NoForward)
Image(f, v) == Seg("uni", "image", Data(f, v), <<>>, NoForward)
Video(f, v) == Seg("uni", "video", Data(f, v), <<>>, NoForward)
At(target) == Seg("uni", "at", Data("target", target), <<>>, NoForward)
AtAll == Seg("uni", "at_all", NoData, <<>>, NoForward)
Reference(nodes) == Seg("uni", "reference", NoData, nodes, NoForward)
\* CustomNode: content is a UniMessage (shape uni) or a str (shape str)
CustomNode(uid, name, content) == [uid |-> uid, name |-> name, content |-> content]

\* wire segments
V11Seg(type, data) == Seg("wire", type, data, <<>>, NoForward)
V11Forward(fwd) == Seg("wire", "forward", NoData, <<>>, fwd)

\* message_content of _extract_content_from_message: UniMessage (uni),
\* V11Message (v11), list, dict with type and data (dict, one segment), str,
\* or anything else (other: None, a number, a dict without these keys)
Content(shape, segs, text) == [shape |-> shape, segs |-> segs, text |-> text]
NoContent == Content("other", <<>>, "none")

\* a raw node descriptor: a dict or not, its message/content payload, its
\* sender (ok: a dict with user_id and nickname; absent; null: not a dict)
RawNode(shape, payload, sender) ==
    [shape |-> shape, payload |-> payload, sender |-> sender]

\* str.strip() leaves nothing
IsBlank(t) == t \in {"", " "}

\* Python's truth value of a payload
Falsy(mc) ==
    \/ mc.shape = "other" /\ mc.text = "none"
    \/ mc.shape = "str" /\ mc.text = ""
    \/ mc.shape \in {"uni", "v11", "list"} /\ mc.segs = <<>>

\* the outcome of a call: whether it raised, the value it returned (or had
\* built when it raised), the fetches it issued and the calls it made
Result(v) == [raised |-> FALSE, val |-> v, fetches |-> 0, calls |-> 0]
Raised == [raised |-> TRUE, val |-> <<>>, fetches |-> 0, calls |-> 0]

\* the outcome of a statement that consists of the call r
Called(r) == [r EXCEPT !.calls = @ + 1]

\* a then b, b appending what it returns to what a has built
Then(a, b) ==
    IF a.raised THEN a
    ELSE [raised |-> b.raised,
          val |-> IF b.raised THEN a.val ELSE a.val \o b.val,
          fetches |-> a.fetches + b.fetches,
          calls |-> a.calls + b.calls]

\* ------------------------------------------------------------ wire to neutral
RECURSIVE ProcessV11Segment(_, _), ProcessForwardContent(_, _),
          CreateNodes(_, _), CreateCustomNode(_, _), ExtractContent(_, _)

\* the placeholder node of _process_forward_content
PlaceholderNode(name, text) == CustomNode("0", name, Content("str", <<>>, text))

\* faulty variant: a call one level beyond the limit is let through
DepthReached_OneSlips(depth) ==
    depth >= MAX_FORWARD_DEPTH /\ depth # MAX_FORWARD_DEPTH + 1

\* depth >= MAX_FORWARD_DEPTH of _extract_content_from_message
DepthReached(depth) == depth >= MAX_FORWARD_DEPTH

\* the image and video branches of _process_v11_segment
MediaFromWire(type, data) ==
    IF data.f = "url" THEN Result(<<Seg("uni", type, Data("url", data.v), <<>>, NoForward)>>)
    ELSE IF data.f = "file_b64"
        THEN Result(<<Seg("uni", type, Data("raw_bytes", data.v), <<>>, NoForward)>>)
    ELSE IF data.f = "file_badb64" THEN Raised
    ELSE IF data.f = "file"
        THEN Result(<<Seg("uni", type, Data("path", data.v), <<>>, NoForward)>>)
    ELSE IF data.f = "file_uri"
        THEN Result(<<Seg("uni", type, Data("path_uri", data.v), <<>>, NoForward)>>)
    ELSE IF data.f = "file_uri_uri"
        THEN Result(<<Seg("uni", type, Data("path_uri_uri", data.v), <<>>, NoForward)>>)
    ELSE Result(<<>>)

\* the at branch of _process_v11_segment: "qq" is lowered and compared
AtFromWire(data) ==
    IF data.f = "qq_int" THEN Raised
    ELSE IF data.f = "qq" /\ data.v \in {"all", "ALL"} THEN Result(<<AtAll>>)
    ELSE IF data.f = "qq" /\ data.v # "" THEN Result(<<At(data.v)>>)
    ELSE Result(<<>>)

\* _process_v11_segment
ProcessV11Segment(seg_obj, depth) ==
    IF seg_obj.rep # "wire" THEN Result(<<>>)
    ELSE IF seg_obj.type = "" \/ seg_obj.data.f = "nodata" THEN Result(<<>>)
    ELSE IF seg_obj.type \in {"text", "image", "at", "video", "forward"}
            /\ seg_obj.data.f = "nodict"
        THEN Raised
    ELSE IF seg_obj.type = "text"
        THEN Result(IF seg_obj.data.f = "text" /\ ~IsBlank(seg_obj.data.v)
                        THEN <<Text(seg_obj.data.v)>> ELSE <<>>)
    ELSE IF seg_obj.type \in {"image", "video"}
        THEN MediaFromWire(seg_obj.type, seg_obj.data)
    ELSE IF seg_obj.type = "at" THEN AtFromWire(seg_obj.data)
    ELSE IF seg_obj.type = "forward"
        THEN LET nested == Called(ProcessForwardContent(seg_obj.fwd, depth))
             IN  IF nested.raised \/ nested.val = <<>> THEN nested
                 ELSE [nested EXCEPT !.val = <<Reference(nested.val)>>]
    ELSE Result(<<>>)

\* the loop over raw nodes of _process_forward_content: a node that raises
\* ends the loop with the nodes built so far
CreateNodes(nodes, depth) ==
    LET F[n \in 0..Len(nodes)] ==
            IF n = 0 THEN Result(<<>>)
            ELSE IF F[n - 1].raised THEN F[n - 1]
            ELSE Then(F[n - 1], Called(CreateCustomNode(nodes[n], depth)))
    IN  F[Len(nodes)]

\* faulty variant: an empty answer to the fetch yields no placeholder
AfterFetch_NoPlaceholder(nodes_list, depth) == CreateNodes(nodes_list, depth)

\* the try block of _process_forward_content after get_forward_msg answered
\* data: the nodes of the answer, or the placeholder when there are none
AfterFetch(nodes_list, depth) ==
    IF nodes_list # <<>>
        THEN CreateNodes(nodes_list, depth)
        ELSE Result(<<PlaceholderNode("error", FetchFailedText)>>)

\* faulty variant: an exception of the fetch or of its loop is not caught
CatchFetch_Propagates(r) == r

\* except Exception around the fetch and its loop: the placeholder is added
\* to the nodes built so far
CatchFetch(r) ==
    IF r.raised
        THEN [r EXCEPT !.raised = FALSE,
                       !.val = @ \o <<PlaceholderNode("error", ProcessErrorText)>>]
        ELSE r

\* a raw node whose message is one forward segment with the forward part fwd
NodeWithForward(fwd) ==
    RawNode("dict", Content("list", <<V11Forward(fwd)>>, ""), "ok")

\* nodes_list of the fetch branch: the nodes of a list, of "messages" or of
\* data.message; for a bundle that refers to itself (answer kinds self,
\* self_twice) its nodes followed by one or two nodes that hold a forward
\* segment with the id of the bundle again; nothing for another answer
AnswerNodes(fwd) ==
    IF fwd.answer.kind \in {"list", "messages", "data"} THEN fwd.answer.nodes
    ELSE IF fwd.answer.kind = "self"
        THEN fwd.answer.nodes \o <<NodeWithForward(fwd)>>
    ELSE IF fwd.answer.kind = "self_twice"
        THEN fwd.answer.nodes \o <<NodeWithForward(fwd), NodeWithForward(fwd)>>
    ELSE <<>>

\* faulty variant: a nesting level adds two to the depth
NextDepth_ByTwo(depth) == depth + 2

\* depth + 1 of the calls of _create_custom_node_from_data
NextDepth(depth) == depth + 1

\* faulty variant: the fetch is tried without an id as well
HasForwardId_Always(fid) == TRUE

\* the truth value of forward_id: None and "" are no id
HasForwardId(fid) == fid # ""

\* faulty variant: a fetch is tried first whenever there is an id
ContentParsed_IdFirst(fwd) == fwd.fid = "" /\ fwd.content.form \in {"list", "json_list"}

\* content_parsed of _process_forward_content: the inline content is truthy
\* and is a list or a str that json.loads turns into a list
ContentParsed(fwd) ==
    \/ fwd.content.form = "json_list"
    \/ fwd.content.form = "list" /\ fwd.content.nodes # <<>>

\* _process_forward_content
ProcessForwardContent(fwd, depth) ==
    LET forward_content == fwd.content
        content_parsed == ContentParsed(fwd)
    IN  IF content_parsed
            THEN LET r == CreateNodes(forward_content.nodes, NextDepth(depth))
                 IN  IF ~r.raised /\ r.val = <<>>
                         THEN [r EXCEPT !.val =
                                 <<PlaceholderNode("info", EmptyContentText)>>]
                         ELSE r
        ELSE IF HasForwardId(fwd.fid)
            THEN LET a == fwd.answer
                     fetched == [Result(<<>>) EXCEPT !.fetches = 1]
                 IN  IF a.kind = "action_failed"
                         THEN Then(fetched,
                                   Result(<<PlaceholderNode("error", FetchFailedText)>>))
                     ELSE IF a.kind = "exception"
                         THEN Then(fetched, CatchFetch(Raised))
                     ELSE Then(fetched,
                               CatchFetch(AfterFetch(AnswerNodes(fwd),
                                                     NextDepth(depth))))
        ELSE Result(<<PlaceholderNode("error", UnresolvableText)>>)

\* _create_custom_node_from_data: no node (<<>>) or one node
CreateCustomNode(node_data, depth) ==
    IF node_data.shape # "dict" THEN Raised
    ELSE IF Falsy(node_data.payload) THEN Result(<<>>)
    ELSE IF node_data.sender = "null" THEN Raised
    ELSE LET uid == IF node_data.sender = "ok" THEN "42" ELSE "10000"
             name == IF node_data.sender = "ok" THEN "nick" ELSE "user1000"
             extracted == Called(ExtractContent(node_data.payload, depth))
         IN  IF extracted.val = <<>> THEN extracted
             ELSE [extracted EXCEPT !.val =
                        <<CustomNode(uid, name, Content("uni", @, ""))>>]

\* faulty variant: an exception of one segment leaves the loop
CatchSegment_Propagates(r) == r

\* except Exception around the handling of one segment: the segment adds
\* nothing and the loop goes on
CatchSegment(r) == IF r.raised THEN [r EXCEPT !.raised = FALSE, !.val = <<>>] ELSE r

\* the try block of _extract_content_from_message for one segment
ExtractSegment(seg_obj, depth) ==
    IF seg_obj.rep = "uni" /\ seg_obj.type = "text"
        THEN Result(IF ~IsBlank(seg_obj.data.v) THEN <<seg_obj>> ELSE <<>>)
    ELSE IF seg_obj.rep = "uni" /\ seg_obj.type \in {"image", "video"}
        THEN Result(IF seg_obj.data.f # "empty" THEN <<seg_obj>> ELSE <<>>)
    ELSE IF seg_obj.rep = "uni" /\ seg_obj.type \in {"at", "at_all"}
        THEN Result(<<seg_obj>>)
    ELSE Called(ProcessV11Segment(seg_obj, depth))

\* _extract_content_from_message
ExtractContent(message_content, depth) ==
    IF DepthReached(depth) THEN Result(<<Text(TooDeepText)>>)
    ELSE IF message_content.shape \in {"uni", "v11", "list", "dict"}
        THEN LET segments_to_process == message_content.segs
                 F[n \in 0..Len(segments_to_process)] ==
                    IF n = 0 THEN Result(<<>>)
                    ELSE Then(F[n - 1],
                              CatchSegment(ExtractSegment(segments_to_process[n], depth)))
             IN  F[Len(segments_to_process)]
    ELSE IF message_content.shape = "str"
        THEN Result(IF ~IsBlank(message_content.text)
                        THEN <<Text(message_content.text)>> ELSE <<>>)
    ELSE Result(<<>>)

\* ------------------------------------------------------------ neutral to wire
RECURSIVE uni_segment_to_v11_segment_dict(_, _)

\* the text of the separator that names the author of a node
SeparatorText(node) ==
    IF node.name = "nick" THEN "--- from nick (42) ---"
    ELSE IF node.name = "user1000" THEN "--- from user1000 (10000) ---"
    ELSE "--- from error (0) ---"

\* the depth from which uni_segment_to_v11_segment_dict answers a Reference
\* with the placeholder text
WireDepthLimit == 3

\* faulty variant: the depth is not looked at
WireDepthReached_Never(depth) == FALSE

\* depth >= 3 of the Reference branch
WireDepthReached(depth) == depth >= WireDepthLimit

\* the text that closes the content of a node
TrailerText == "---"

\* faulty variant: only media with a url are converted
MediaToWire_UrlOnly(type, data) ==
    IF data.f = "url" THEN <<V11Seg(type, Data("file", data.v))>> ELSE <<>>

\* the image and video branches of uni_segment_to_v11_segment_dict: url
\* first, then raw, then path
MediaToWire(type, data) ==
    IF data.f = "url" THEN <<V11Seg(type, Data("file", data.v))>>
    ELSE IF data.f \in {"raw_b64", "raw_bytes"}
        THEN <<V11Seg(type, Data("file_b64", data.v))>>
    ELSE IF data.f = "path" THEN <<V11Seg(type, Data("file_uri", data.v))>>
    ELSE IF data.f = "path_uri" THEN <<V11Seg(type, Data("file_uri_uri", data.v))>>
    ELSE <<>>

\* the segments of a message converted one by one and joined: a list
\* extends the result, a dict is appended, None adds nothing
ConvertAll(segs, depth) ==
    LET F[n \in 0..Len(segs)] ==
            IF n = 0 THEN <<>>
            ELSE F[n - 1] \o uni_segment_to_v11_segment_dict(segs[n], depth)
    IN  F[Len(segs)]

\* the Reference branch below the depth bound: per node with content, the
\* separator goes to the front of the list, content and trailer to its end
FlattenNodes(nodes_list, depth) ==
    LET F[n \in 0..Len(nodes_list)] ==
            IF n = 0 THEN <<>>
            ELSE LET node == nodes_list[n]
                     node_v11_content ==
                        IF node.content.shape = "uni"
                            THEN ConvertAll(node.content.segs, depth + 1)
                        ELSE IF node.content.shape = "str"
                            THEN <<V11Seg("text", Data("text", node.content.text))>>
                        ELSE <<>>
                 IN  IF node_v11_content # <<>>
                         THEN <<V11Seg("text", Data("text", SeparatorText(node)))>>
                              \o F[n - 1] \o node_v11_content
                              \o <<V11Seg("text", Data("text", TrailerText))>>
                         ELSE F[n - 1]
    IN  F[Len(nodes_list)]

\* uni_segment_to_v11_segment_dict: the wire segments a neutral segment
\* becomes (none for None, one for a dict, all of them for a list)
uni_segment_to_v11_segment_dict(seg, depth) ==
    IF seg.rep # "uni" THEN <<>>
    ELSE IF seg.type = "text" THEN <<V11Seg("text", Data("text", seg.data.v))>>
    ELSE IF seg.type \in {"image", "video"} THEN MediaToWire(seg.type, seg.data)
    ELSE IF seg.type = "at" THEN <<V11Seg("at", Data("qq", seg.data.v))>>
    ELSE IF seg.type = "at_all" THEN <<V11Seg("at", Data("qq", "all"))>>
    ELSE IF seg.type = "reference" /\ seg.nodes # <<>>
        THEN IF WireDepthReached(depth)
                 THEN <<V11Seg("text", Data("text", TooDeepText))>>
                 ELSE FlattenNodes(seg.nodes, depth)
    ELSE <<>>

\* neutral to wire and back: the message the wire form of msg is read as
RoundTrip(msg) ==
    ExtractContent(Content("list", ConvertAll(msg, 0), ""), 0)

\* ------------------------------------------------------------------- state
VARIABLES
    last_broadcast_msg_ids, \* BroadcastManager._last_broadcast_msg_ids, in insertion order
    pc,             \* where each task stands
    entry,          \* the call a task is running: handler, send, direct, recall
    bot,            \* the bot of the running call
    group_list,     \* the target list of the running distribution
    idx,            \* position of the loop in group_list / msg_ids_to_recall
    route,          \* normal or forward loop
    success_count, error_count, skip_count, \* the loop's counters
    msg_ids_to_recall, \* the copy recall_last_broadcast works on
    ret,            \* (success, error) as returned to the caller
    sleepFor,       \* duration of the sleep a task is in, 0 when not sleeping
    trace,          \* what the running call has done so far, in order
    inflight,       \* transport calls issued and not yet returned
    gen,            \* number of broadcast invocations started so far
    myGen,          \* the invocation number of the running broadcast
    ops,            \* number of commands / API calls started so far
    replaced,       \* the last clear at a broadcast's start removed records
    prev,           \* summary of the call that completed last
    call            \* a function of the plugin applied on its own: input and result

vars == <<last_broadcast_msg_ids, pc, entry, bot, group_list, idx, route,
          success_count, error_count, skip_count, msg_ids_to_recall, ret,
          sleepFor, trace, inflight, gen, myGen, ops, replaced, prev, call>>

loopVars == <<idx, success_count, error_count, skip_count>>

NoBot == [platform |-> "none", v11 |-> FALSE]
NoPrev == [kind |-> "none", cleared |-> FALSE, success |-> 0, records |-> 0]
\* no function is applied on its own
NoCall == [fn |-> "none"]

Init ==
    /\ last_broadcast_msg_ids = <<>>
    /\ pc = [p \in Procs |-> "idle"]
    /\ entry = [p \in Procs |-> "none"]
    /\ bot = [p \in Procs |-> NoBot]
    /\ group_list = [p \in Procs |-> <<>>]
    /\ idx = [p \in Procs |-> 0]
    /\ route = [p \in Procs |-> "none"]
    /\ success_count = [p \in Procs |-> 0]
    /\ error_count = [p \in Procs |-> 0]
    /\ skip_count = [p \in Procs |-> 0]
    /\ msg_ids_to_recall = [p \in Procs |-> <<>>]
    /\ ret = [p \in Procs |-> <<0, 0>>]
    /\ sleepFor = [p \in Procs |-> 0]
    /\ trace = [p \in Procs |-> <<>>]
    /\ inflight = {}
    /\ gen = 0
    /\ myGen = [p \in Procs |-> 0]
    /\ ops = 0
    /\ replaced = FALSE
    /\ prev = NoPrev
    /\ call = NoCall

\* an event of the trace: what happened, for which position, with which id
Ev(e, i, n) == [ev |-> e, i |-> i, id |-> n]

\* the id the transport gives to the message that invocation g of a
\* broadcast sends to a group: no two sends get the same id
FreshId(g, group) == g * 10 + 2 * group.group_id + group.channel_id

\* a call may start when the task is idle
CanStart(p) == pc[p] = "idle"

\* ------------------------------------------------- handler: handle_broadcast
\* faulty variant: the handler clears the map before it looks for targets
HandleBroadcast_ClearsFirst(p) ==
    /\ CanStart(p)
    /\ \E b \in Bots :
        /\ pc' = [pc EXCEPT ![p] = "resolve"]
        /\ entry' = [entry EXCEPT ![p] = "handler"]
        /\ bot' = [bot EXCEPT ![p] = b]
    /\ ops' = ops + 1
    /\ last_broadcast_msg_ids' = <<>>
    /\ UNCHANGED <<group_list, loopVars, route,
                   msg_ids_to_recall, ret, sleepFor, trace, inflight, gen,
                   myGen, replaced, prev, call>>

\* handle_broadcast up to the call of get_broadcast_target_groups: the
\* content was extracted and is not empty
HandleBroadcast(p) ==
    /\ CanStart(p)
    /\ \E b \in Bots :
        /\ pc' = [pc EXCEPT ![p] = "resolve"]
        /\ entry' = [entry EXCEPT ![p] = "handler"]
        /\ bot' = [bot EXCEPT ![p] = b]
    /\ ops' = ops + 1
    /\ UNCHANGED <<last_broadcast_msg_ids, group_list, loopVars, route,
                   msg_ids_to_recall, ret, sleepFor, trace, inflight, gen,
                   myGen, replaced, prev, call>>

\* target_groups of get_broadcast_target_groups for the current group id
TargetGroups(all_groups, current_group_id) ==
    IF current_group_id # None
        THEN SelectSeq(all_groups, LAMBDA g : g.group_id # current_group_id)
        ELSE all_groups

\* faulty variant: the block filter lets every target through
EnabledGroups_Unfiltered(target_groups, blocked) == target_groups

\* enabled_groups of get_broadcast_target_groups: the targets, in their
\* order, whose group_id task_is_block answers False for
EnabledGroups(target_groups, blocked) ==
    SelectSeq(target_groups, LAMBDA g : g.group_id \notin blocked)

\* the pair get_broadcast_target_groups returns
BroadcastTargets(all_groups, current_group_id, blocked) ==
    LET target_groups == TargetGroups(all_groups, current_group_id)
    IN  IF target_groups = <<>>
            THEN <<(<<>>), (<<>>)>>
            ELSE <<target_groups, EnabledGroups(target_groups, blocked)>>

\* faulty variant: the handler goes on to send_broadcast_and_notify whatever
\* the two lists are
GetBroadcastTargetGroups_AlwaysNotify(p) ==
    /\ pc[p] = "resolve"
    /\ \E current_group_id \in {None} \cup (1..NumGroups) :
        LET target_groups == TargetGroups(get_group_list(bot[p]), current_group_id)
        IN  \E blocked \in SUBSET (1..Len(target_groups)) :
                LET enabled_groups ==
                        SelectIdx(target_groups, (1..Len(target_groups)) \ blocked)
                IN  /\ group_list' = [group_list EXCEPT ![p] = enabled_groups]
                    /\ pc' = [pc EXCEPT ![p] = "notify"]
    /\ UNCHANGED <<last_broadcast_msg_ids, entry, bot, loopVars, route,
                   msg_ids_to_recall, ret, sleepFor, trace, inflight, gen,
                   myGen, ops, replaced, prev, call>>

\* get_broadcast_target_groups and the test of handle_broadcast on its result:
\* blocked is the set of positions task_is_block answers True for
GetBroadcastTargetGroups(p) ==
    /\ pc[p] = "resolve"
    /\ \E current_group_id \in {None} \cup (1..NumGroups) :
        LET target_groups == TargetGroups(get_group_list(bot[p]), current_group_id)
        IN  \E blocked \in SUBSET (1..Len(target_groups)) :
                LET enabled_groups ==
                        SelectIdx(target_groups, (1..Len(target_groups)) \ blocked)
                IN  /\ group_list' = [group_list EXCEPT ![p] = enabled_groups]
                    /\ pc' = [pc EXCEPT ![p] =
                                IF target_groups = <<>> \/ enabled_groups = <<>>
                                    THEN "noop" ELSE "notify"]
    /\ UNCHANGED <<last_broadcast_msg_ids, entry, bot, loopVars, route,
                   msg_ids_to_recall, ret, sleepFor, trace, inflight, gen,
                   myGen, ops, replaced, prev, call>>

\* faulty variant: send_broadcast_and_notify does not clear the map
SendBroadcastAndNotify_NoClear(p) ==
    /\ pc[p] = "notify"
    /\ replaced' = (last_broadcast_msg_ids # <<>>)
    /\ gen' = gen + 1
    /\ myGen' = [myGen EXCEPT ![p] = gen + 1]
    /\ pc' = [pc EXCEPT ![p] = "distribute"]
    /\ UNCHANGED <<last_broadcast_msg_ids, entry, bot, group_list, loopVars,
                   route, msg_ids_to_recall, ret, sleepFor, trace, inflight,
                   ops, prev, call>>

\* send_broadcast_and_notify up to the call of send_to_specific_groups
SendBroadcastAndNotify(p) ==
    /\ pc[p] = "notify"
    /\ last_broadcast_msg_ids' = clear_last_broadcast_msg_ids(last_broadcast_msg_ids)
    /\ replaced' = (last_broadcast_msg_ids # <<>>)
    /\ gen' = gen + 1
    /\ myGen' = [myGen EXCEPT ![p] = gen + 1]
    /\ pc' = [pc EXCEPT ![p] = "distribute"]
    /\ UNCHANGED <<entry, bot, group_list, loopVars, route, msg_ids_to_recall,
                   ret, sleepFor, trace, inflight, ops, prev, call>>

\* BroadcastManager.send up to the call of send_to_specific_groups
Send(p) ==
    /\ CanStart(p)
    /\ \E b \in Bots :
        /\ bot' = [bot EXCEPT ![p] = b]
        /\ group_list' = [group_list EXCEPT ![p] = get_group_list(b)]
    /\ last_broadcast_msg_ids' = clear_last_broadcast_msg_ids(last_broadcast_msg_ids)
    /\ replaced' = (last_broadcast_msg_ids # <<>>)
    /\ entry' = [entry EXCEPT ![p] = "send"]
    /\ gen' = gen + 1
    /\ myGen' = [myGen EXCEPT ![p] = gen + 1]
    /\ ops' = ops + 1
    /\ pc' = [pc EXCEPT ![p] = "distribute"]
    /\ UNCHANGED <<loopVars, route, msg_ids_to_recall, ret, sleepFor, trace,
                   inflight, prev, call>>

\* the lists a direct caller of send_to_specific_groups passes: nothing, or
\* rows of its own making: the directory with a row without group id before
\* it, or the row of a channel alone, whatever the platform of the bot
DirectLists(b) == {<<>>, <<NoAddressGroup>> \o get_group_list(b), ChannelsOf(1)}

\* a caller that calls send_to_specific_groups itself, with a list of its own
DirectCall(p) ==
    /\ CanStart(p)
    /\ \E b \in Bots :
        /\ bot' = [bot EXCEPT ![p] = b]
        /\ \E gl \in DirectLists(b) :
                group_list' = [group_list EXCEPT ![p] = gl]
    /\ entry' = [entry EXCEPT ![p] = "direct"]
    /\ gen' = gen + 1
    /\ myGen' = [myGen EXCEPT ![p] = gen + 1]
    /\ ops' = ops + 1
    /\ pc' = [pc EXCEPT ![p] = "distribute"]
    /\ UNCHANGED <<last_broadcast_msg_ids, loopVars, route, msg_ids_to_recall,
                   ret, sleepFor, trace, inflight, replaced, prev, call>>

\* ------------------------------------------------- send_to_specific_groups
\* what send_to_specific_groups returns for an empty target list
NoTargetsResult == <<0, 0>>

\* what it returns when the forward nodes built from the message are empty
EmptyNodesResult(target_groups) == <<0, Len(target_groups)>>

\* send_to_specific_groups up to the first await of the loop it chooses
SendToSpecificGroups(p) ==
    /\ pc[p] = "distribute"
    /\ \E message \in Messages :
        IF group_list[p] = <<>>
            THEN /\ ret' = [ret EXCEPT ![p] = NoTargetsResult]
                 /\ route' = [route EXCEPT ![p] = "none"]
                 /\ pc' = [pc EXCEPT ![p] = "returned"]
                 /\ UNCHANGED idx
        ELSE IF RouteOf(bot[p], message) = "empty"
            THEN /\ ret' = [ret EXCEPT ![p] = EmptyNodesResult(group_list[p])]
                 /\ route' = [route EXCEPT ![p] = "empty"]
                 /\ pc' = [pc EXCEPT ![p] = "returned"]
                 /\ UNCHANGED idx
        ELSE /\ route' = [route EXCEPT ![p] = RouteOf(bot[p], message)]
             /\ idx' = [idx EXCEPT ![p] = 1]
             /\ pc' = [pc EXCEPT ![p] = "check"]
             /\ UNCHANGED ret
    /\ UNCHANGED <<last_broadcast_msg_ids, entry, bot, group_list,
                   success_count, error_count, skip_count, msg_ids_to_recall,
                   sleepFor, trace, inflight, gen, myGen, ops, replaced, prev, call>>

\* ------------------------------------- _broadcast_normal / _broadcast_forward
\* faulty variant: the loop steps over every other element
NextIndex_SkipsOne(i) == i + 2

\* where a for loop goes after the element at position i
NextIndex(i) == i + 1

\* faulty variant: a skipped target is not counted
CountSkip_Forgotten(n) == n

\* skip_count += 1 of the two loops
CountSkip(n) == n + 1

\* faulty variant: a raising send is not counted
CountError_Forgotten(n) == n

\* error_count += 1 of the except branches
CountError(n) == n + 1

\* faulty variant: a blocked or unaddressed target is counted as skipped and
\* the send is issued for it all the same
CheckGroupAvailability_SkipStillSends(p) ==
    /\ pc[p] = "check"
    /\ idx[p] <= Len(group_list[p])
    /\ LET group == group_list[p][idx[p]]
       IN  \E is_block \in {"yes", "no", "raise"} :
            IF group.group_id = None \/ is_block = "yes"
                THEN /\ skip_count' = [skip_count EXCEPT ![p] = CountSkip(@)]
                     /\ trace' = [trace EXCEPT ![p] = Append(@,
                            Ev(IF group.group_id = None THEN "skip_noaddr"
                                                        ELSE "skip_blocked",
                               idx[p], None))]
                     /\ pc' = [pc EXCEPT ![p] = "send"]
                     /\ UNCHANGED idx
            ELSE IF is_block = "raise"
                THEN /\ pc' = [pc EXCEPT ![p] = "raised"]
                     /\ trace' = [trace EXCEPT ![p] = Append(@,
                            Ev("check_raised", idx[p], None))]
                     /\ UNCHANGED <<skip_count, idx>>
            ELSE /\ pc' = [pc EXCEPT ![p] = "send"]
                 /\ UNCHANGED <<skip_count, idx, trace>>
    /\ UNCHANGED <<last_broadcast_msg_ids, entry, bot, group_list, route,
                   success_count, error_count, msg_ids_to_recall, ret,
                   sleepFor, inflight, gen, myGen, ops, replaced, prev, call>>

\* _check_group_availability with the answer of task_is_block (True, False
\* or an exception), and the skip branch of both loops
CheckGroupAvailability(p) ==
    /\ pc[p] = "check"
    /\ idx[p] <= Len(group_list[p])
    /\ LET group == group_list[p][idx[p]]
       IN  \E is_block \in {"yes", "no", "raise"} :
            IF group.group_id = None \/ is_block = "yes"
                THEN /\ skip_count' = [skip_count EXCEPT ![p] = CountSkip(@)]
                     /\ trace' = [trace EXCEPT ![p] = Append(@,
                            Ev(IF group.group_id = None THEN "skip_noaddr"
                                                        ELSE "skip_blocked",
                               idx[p], None))]
                     /\ idx' = [idx EXCEPT ![p] = NextIndex(@)]
                     /\ UNCHANGED pc
            ELSE IF is_block = "raise"
                THEN /\ pc' = [pc EXCEPT ![p] = "raised"]
                     /\ trace' = [trace EXCEPT ![p] = Append(@,
                            Ev("check_raised", idx[p], None))]
                     /\ UNCHANGED <<skip_count, idx>>
            ELSE /\ pc' = [pc EXCEPT ![p] = "send"]
                 /\ UNCHANGED <<skip_count, idx, trace>>
    /\ UNCHANGED <<last_broadcast_msg_ids, entry, bot, group_list, route,
                   success_count, error_count, msg_ids_to_recall, ret,
                   sleepFor, inflight, gen, myGen, ops, replaced, prev, call>>

\* faulty variant: the send is started and not awaited, the loop moves on at once
SendIssue_NotAwaited(p) ==
    /\ pc[p] = "send"
    /\ inflight' = inflight \cup {<<p, "send", idx[p]>>}
    /\ trace' = [trace EXCEPT ![p] = Append(@, Ev("send", idx[p], None))]
    /\ idx' = [idx EXCEPT ![p] = NextIndex(@)]
    /\ pc' = [pc EXCEPT ![p] = "check"]
    /\ UNCHANGED <<last_broadcast_msg_ids, entry, bot, group_list, route,
                   success_count, error_count, skip_count, msg_ids_to_recall,
                   ret, sleepFor, gen, myGen, ops, replaced, prev, call>>

\* the start of the try block: get_target (normal loop only) and the send
\* call, message.send or bot.send_group_forward_msg, up to its await
SendIssue(p) ==
    /\ pc[p] = "send"
    /\ LET group == group_list[p][idx[p]]
       IN  IF route[p] = "normal" /\ get_target(group) = NoTarget
               THEN /\ skip_count' = [skip_count EXCEPT ![p] = CountSkip(@)]
                    /\ trace' = [trace EXCEPT ![p] = Append(@,
                            Ev("skip_noaddr", idx[p], None))]
                    /\ idx' = [idx EXCEPT ![p] = NextIndex(@)]
                    /\ pc' = [pc EXCEPT ![p] = "check"]
                    /\ UNCHANGED inflight
               ELSE /\ inflight' = inflight \cup {<<p, "send", idx[p]>>}
                    /\ trace' = [trace EXCEPT ![p] = Append(@,
                            Ev("send", idx[p], None))]
                    /\ pc' = [pc EXCEPT ![p] = "sending"]
                    /\ UNCHANGED <<skip_count, idx>>
    /\ UNCHANGED <<last_broadcast_msg_ids, entry, bot, group_list, route,
                   success_count, error_count, msg_ids_to_recall, ret,
                   sleepFor, gen, myGen, ops, replaced, prev, call>>

\* faulty variant: a receipt without id turns the send into an error
SendSucceeds_IdRequired(p) ==
    /\ pc[p] = "sending"
    /\ LET group_key == GroupKey(route[p], group_list[p][idx[p]])
           n == FreshId(myGen[p], group_list[p][idx[p]])
       IN  \E carries \in BOOLEAN :
             \E result \in (IF carries THEN GoodReceipts(n) ELSE IdlessReceipts) :
                /\ last_broadcast_msg_ids' =
                        ExtractMessageId(last_broadcast_msg_ids, result, group_key)
                /\ trace' = [trace EXCEPT ![p] = Append(@,
                        Ev("sent", idx[p], IF carries THEN n ELSE None))]
                /\ success_count' = [success_count EXCEPT ![p] =
                        IF carries THEN @ + 1 ELSE @]
                /\ error_count' = [error_count EXCEPT ![p] =
                        IF carries THEN @ ELSE @ + 1]
    /\ inflight' = inflight \ {<<p, "send", idx[p]>>}
    /\ pc' = [pc EXCEPT ![p] = "pace"]
    /\ UNCHANGED <<entry, bot, group_list, route, idx, skip_count,
                   msg_ids_to_recall, ret, sleepFor, gen, myGen, ops, replaced, prev, call>>

\* the send call returns a receipt: the id is extracted, the success counted
SendSucceeds(p) ==
    /\ pc[p] = "sending"
    /\ LET group_key == GroupKey(route[p], group_list[p][idx[p]])
           n == FreshId(myGen[p], group_list[p][idx[p]])
       IN  \E carries \in BOOLEAN :
             \E result \in (IF carries THEN GoodReceipts(n) ELSE IdlessReceipts) :
                /\ last_broadcast_msg_ids' =
                        ExtractMessageId(last_broadcast_msg_ids, result, group_key)
                /\ trace' = [trace EXCEPT ![p] = Append(@,
                        Ev("sent", idx[p], IF carries THEN n ELSE None))]
    /\ success_count' = [success_count EXCEPT ![p] = @ + 1]
    /\ inflight' = inflight \ {<<p, "send", idx[p]>>}
    /\ pc' = [pc EXCEPT ![p] = "pace"]
    /\ UNCHANGED <<entry, bot, group_list, route, idx, error_count, skip_count,
                   msg_ids_to_recall, ret, sleepFor, gen, myGen, ops, replaced, prev, call>>

\* faulty variant: a record is written for the target before the send raises
SendRaises_RecordsFirst(p) ==
    /\ pc[p] = "sending"
    /\ last_broadcast_msg_ids' =
            DictSet(last_broadcast_msg_ids,
                    GroupKey(route[p], group_list[p][idx[p]]),
                    FreshId(myGen[p], group_list[p][idx[p]]))
    /\ error_count' = [error_count EXCEPT ![p] = CountError(@)]
    /\ trace' = [trace EXCEPT ![p] = Append(@, Ev("send_raised", idx[p], None))]
    /\ inflight' = inflight \ {<<p, "send", idx[p]>>}
    /\ idx' = [idx EXCEPT ![p] = NextIndex(@)]
    /\ pc' = [pc EXCEPT ![p] = "check"]
    /\ UNCHANGED <<entry, bot, group_list, route,
                   success_count, skip_count, msg_ids_to_recall, ret, sleepFor,
                   gen, myGen, ops, replaced, prev, call>>

\* the send call raises (ActionFailed or any other Exception): the except
\* branches count the error and the for loop takes the next target
SendRaises(p) ==
    /\ pc[p] = "sending"
    /\ error_count' = [error_count EXCEPT ![p] = CountError(@)]
    /\ trace' = [trace EXCEPT ![p] = Append(@, Ev("send_raised", idx[p], None))]
    /\ inflight' = inflight \ {<<p, "send", idx[p]>>}
    /\ idx' = [idx EXCEPT ![p] = NextIndex(@)]
    /\ pc' = [pc EXCEPT ![p] = "check"]
    /\ UNCHANGED <<last_broadcast_msg_ids, entry, bot, group_list, route,
                   success_count, skip_count, msg_ids_to_recall, ret, sleepFor,
                   gen, myGen, ops, replaced, prev, call>>

\* asyncio.sleep(random.randint(1, 3)) after a counted success
PacingSleep(p) ==
    /\ pc[p] = "pace"
    /\ \E d \in PaceMin..PaceMax : sleepFor' = [sleepFor EXCEPT ![p] = d]
    /\ trace' = [trace EXCEPT ![p] = Append(@, Ev("sleep", idx[p], None))]
    /\ pc' = [pc EXCEPT ![p] = "sleeping"]
    /\ UNCHANGED <<last_broadcast_msg_ids, entry, bot, group_list, route,
                   loopVars, msg_ids_to_recall, ret, inflight, gen, myGen,
                   ops, replaced, prev, call>>

\* the sleep is over: the for loop takes the next target
WakeUp(p) ==
    /\ pc[p] = "sleeping"
    /\ sleepFor' = [sleepFor EXCEPT ![p] = 0]
    /\ idx' = [idx EXCEPT ![p] = NextIndex(@)]
    /\ pc' = [pc EXCEPT ![p] = "check"]
    /\ UNCHANGED <<last_broadcast_msg_ids, entry, bot, group_list, route,
                   success_count, error_count, skip_count, msg_ids_to_recall,
                   ret, trace, inflight, gen, myGen, ops, replaced, prev, call>>

\* the loop is exhausted: the pass returns its three counts and
\* send_to_specific_groups returns (success_count, error_count)
PassReturns(p) ==
    /\ pc[p] = "check"
    /\ idx[p] > Len(group_list[p])
    /\ ret' = [ret EXCEPT ![p] = <<success_count[p], error_count[p]>>]
    /\ pc' = [pc EXCEPT ![p] = "returned"]
    /\ UNCHANGED <<last_broadcast_msg_ids, entry, bot, group_list, route,
                   loopVars, msg_ids_to_recall, sleepFor, trace, inflight, gen,
                   myGen, ops, replaced, prev, call>>

\* ---------------------------------------------------- recall_last_broadcast
\* what bot.call_api("delete_msg") can answer
Wordings == {"MESSAGE_NOT_FOUND", "message_not_found", "Failed To Delete Message",
             "timeout", ""}

\* ActionFailed exceptions: the two retcodes, another one, or none at all
ActionFailures == [retcode : {RetcodeNotFound, RetcodeDeleteFailed, 1404, None},
                   wording : Wordings]

DeleteOutcomes == {[kind |-> "ok"], [kind |-> "exception"]}
                  \cup {[kind |-> "action_failed", e |-> e] : e \in ActionFailures}

\* "MESSAGE_NOT_FOUND" in wording.upper()
UpperHasNotFound(w) == w \in {"MESSAGE_NOT_FOUND", "message_not_found"}

\* "delete message" in wording.lower()
LowerHasDeleteMessage(w) == w \in {"Failed To Delete Message"}

\* faulty variant: the retcode alone decides, the wording is not looked at
IsBenign_RetcodeOnly(e) == e.retcode \in {RetcodeNotFound, RetcodeDeleteFailed}

\* the two branches of except ActionFailed that only log a warning
IsBenign(e) ==
    \/ e.retcode = RetcodeNotFound /\ UpperHasNotFound(e.wording)
    \/ e.retcode = RetcodeDeleteFailed /\ LowerHasDeleteMessage(e.wording)

\* how the try block of the recall loop classifies one delete outcome
Classify(o) ==
    IF o.kind = "ok" THEN "deleted"
    ELSE IF o.kind = "action_failed" /\ IsBenign(o.e) THEN "benign"
    ELSE "failed"

\* faulty variant: recall returns without clearing the map
AfterRecall_NotCleared(d) == d

\* the map a recall leaves behind when it has gone through its copy
AfterRecall(d) == clear_last_broadcast_msg_ids(d)

\* faulty variant: the empty copy is not noticed and the loop is entered
NothingToRecall_Unnoticed(d) == FALSE

\* "if not msg_ids_to_recall" of recall_last_broadcast
NothingToRecall(d) == d = <<>>

\* handle_broadcast_recall up to recall_last_broadcast's first await: the
\* copy of the map is taken; an empty copy returns (0, 0) at once
RecallLastBroadcast(p) ==
    /\ CanStart(p)
    /\ \E b \in Bots : bot' = [bot EXCEPT ![p] = b]
    /\ entry' = [entry EXCEPT ![p] = "recall"]
    /\ msg_ids_to_recall' = [msg_ids_to_recall EXCEPT ![p] = last_broadcast_msg_ids]
    /\ ops' = ops + 1
    /\ IF NothingToRecall(last_broadcast_msg_ids)
           THEN /\ ret' = [ret EXCEPT ![p] = <<0, 0>>]
                /\ pc' = [pc EXCEPT ![p] = "recall_returned"]
                /\ UNCHANGED idx
           ELSE /\ idx' = [idx EXCEPT ![p] = 1]
                /\ pc' = [pc EXCEPT ![p] = "delete"]
                /\ UNCHANGED ret
    /\ UNCHANGED <<last_broadcast_msg_ids, group_list, route, success_count,
                   error_count, skip_count, sleepFor, trace, inflight, gen,
                   myGen, replaced, prev, call>>

\* faulty variant: the loop reads the map itself where it has a record at the
\* position, not the copy
DeleteIssue_ReadsMap(p) ==
    /\ pc[p] = "delete"
    /\ idx[p] <= Len(msg_ids_to_recall[p])
    /\ inflight' = inflight \cup {<<p, "delete", idx[p]>>}
    /\ trace' = [trace EXCEPT ![p] = Append(@,
            Ev("delete", idx[p],
               IF idx[p] <= Len(last_broadcast_msg_ids)
                   THEN last_broadcast_msg_ids[idx[p]].id
                   ELSE msg_ids_to_recall[p][idx[p]].id))]
    /\ pc' = [pc EXCEPT ![p] = "deleting"]
    /\ UNCHANGED <<last_broadcast_msg_ids, entry, bot, group_list, route,
                   loopVars, msg_ids_to_recall, ret, sleepFor, gen, myGen,
                   ops, replaced, prev, call>>

\* bot.call_api("delete_msg", message_id = msg_id) up to its await
DeleteIssue(p) ==
    /\ pc[p] = "delete"
    /\ idx[p] <= Len(msg_ids_to_recall[p])
    /\ inflight' = inflight \cup {<<p, "delete", idx[p]>>}
    /\ trace' = [trace EXCEPT ![p] = Append(@,
            Ev("delete", idx[p], msg_ids_to_recall[p][idx[p]].id))]
    /\ pc' = [pc EXCEPT ![p] = "deleting"]
    /\ UNCHANGED <<last_broadcast_msg_ids, entry, bot, group_list, route,
                   loopVars, msg_ids_to_recall, ret, sleepFor, gen, myGen,
                   ops, replaced, prev, call>>

\* the delete call returns or raises; the outcome is classified
DeleteReturns(p) ==
    /\ pc[p] = "deleting"
    /\ \E o \in DeleteOutcomes :
        /\ success_count' = [success_count EXCEPT ![p] =
                IF Classify(o) = "deleted" THEN @ + 1 ELSE @]
        /\ error_count' = [error_count EXCEPT ![p] =
                IF Classify(o) = "failed" THEN @ + 1 ELSE @]
        /\ trace' = [trace EXCEPT ![p] = Append(@,
                Ev(Classify(o), idx[p], msg_ids_to_recall[p][idx[p]].id))]
    /\ inflight' = inflight \ {<<p, "delete", idx[p]>>}
    /\ pc' = [pc EXCEPT ![p] = "recall_sleep"]
    /\ UNCHANGED <<last_broadcast_msg_ids, entry, bot, group_list, route, idx,
                   skip_count, msg_ids_to_recall, ret, sleepFor, gen, myGen,
                   ops, replaced, prev, call>>

\* asyncio.sleep(0.2) at the end of each round of the recall loop
RecallSleep(p) ==
    /\ pc[p] = "recall_sleep"
    /\ idx' = [idx EXCEPT ![p] = NextIndex(@)]
    /\ pc' = [pc EXCEPT ![p] = "delete"]
    /\ UNCHANGED <<last_broadcast_msg_ids, entry, bot, group_list, route,
                   success_count, error_count, skip_count, msg_ids_to_recall,
                   ret, sleepFor, trace, inflight, gen, myGen, ops, replaced, prev, call>>

\* faulty variant: the map is cleared only when no delete failed
RecallReturns_KeepsOnError(p) ==
    /\ pc[p] = "delete"
    /\ idx[p] > Len(msg_ids_to_recall[p])
    /\ last_broadcast_msg_ids' = IF error_count[p] = 0
                                     THEN AfterRecall(last_broadcast_msg_ids)
                                     ELSE last_broadcast_msg_ids
    /\ ret' = [ret EXCEPT ![p] = <<success_count[p], error_count[p]>>]
    /\ pc' = [pc EXCEPT ![p] = "recall_returned"]
    /\ UNCHANGED <<entry, bot, group_list, route, loopVars, msg_ids_to_recall,
                   sleepFor, trace, inflight, gen, myGen, ops, replaced, prev, call>>

\* the recall loop is exhausted: the map is cleared, the counts returned
RecallReturns(p) ==
    /\ pc[p] = "delete"
    /\ idx[p] > Len(msg_ids_to_recall[p])
    /\ last_broadcast_msg_ids' = AfterRecall(last_broadcast_msg_ids)
    /\ ret' = [ret EXCEPT ![p] = <<success_count[p], error_count[p]>>]
    /\ pc' = [pc EXCEPT ![p] = "recall_returned"]
    /\ UNCHANGED <<entry, bot, group_list, route, loopVars, msg_ids_to_recall,
                   sleepFor, trace, inflight, gen, myGen, ops, replaced, prev, call>>

\* faulty variant: the handler reports the counts whatever they are
RecallReport_AlwaysCounts(result) == "recall_done"

\* the private message handle_broadcast_recall sends for the pair
\* recall_last_broadcast returned: "no_record" stands for the text that no
\* recent broadcast record was found, "recall_done" for the text with the
\* counts
RecallReport(result) ==
    IF result[1] = 0 /\ result[2] = 0 THEN "no_record" ELSE "recall_done"

\* ------------------------------------------------------------ end of a call
\* number of events e in a trace
CountEv(t, e) == Cardinality({i \in 1..Len(t) : t[i].ev = e})

\* the handler (or the caller) is done with the result of the call.  prev
\* keeps of a broadcast whether its entry cleared the map first, its
\* successes and the records it left, of a recall its successful deletes and
\* the records it went through; a broadcast command that found no eligible
\* target leaves the summary as it is
Finish(p) ==
    /\ pc[p] \in {"returned", "raised", "noop", "recall_returned"}
    /\ prev' = IF pc[p] = "noop" THEN prev
               ELSE [kind |-> IF entry[p] = "recall" THEN "recall" ELSE "broadcast",
                     cleared |-> entry[p] \in {"handler", "send"},
                     success |-> success_count[p],
                     records |-> IF entry[p] = "recall"
                                     THEN Len(msg_ids_to_recall[p])
                                     ELSE Len(last_broadcast_msg_ids)]
    /\ pc' = [pc EXCEPT ![p] = "idle"]
    /\ entry' = [entry EXCEPT ![p] = "none"]
    /\ bot' = [bot EXCEPT ![p] = NoBot]
    /\ group_list' = [group_list EXCEPT ![p] = <<>>]
    /\ idx' = [idx EXCEPT ![p] = 0]
    /\ route' = [route EXCEPT ![p] = "none"]
    /\ success_count' = [success_count EXCEPT ![p] = 0]
    /\ error_count' = [error_count EXCEPT ![p] = 0]
    /\ skip_count' = [skip_count EXCEPT ![p] = 0]
    /\ msg_ids_to_recall' = [msg_ids_to_recall EXCEPT ![p] = <<>>]
    /\ ret' = [ret EXCEPT ![p] = <<0, 0>>]
    /\ trace' = [trace EXCEPT ![p] = <<>>]
    /\ myGen' = [myGen EXCEPT ![p] = 0]
    /\ UNCHANGED <<last_broadcast_msg_ids, sleepFor, inflight, gen, ops, replaced,
                   call>>

\* ------------------------------------------- functions applied on their own
\* all sequences over S of length 0 to n
SeqsUpTo(S, n) == UNION {[1..k -> S] : k \in 0..n}

\* wire segments without a forward part, one for each way a segment is read
SimpleWireSegs ==
    {V11Seg("text", Data("text", "hi")), V11Seg("text", Data("text", " ")),
     V11Seg("text", Data("text_int", "7")), V11Seg("text", Data("nodict", "")),
     V11Seg("image", Data("url", "u1")), V11Seg("image", Data("file_b64", "b1")),
     V11Seg("image", Data("file_badb64", "")), V11Seg("image", NoData),
     V11Seg("video", Data("file", "p1")),
     V11Seg("at", Data("qq", "123")), V11Seg("at", Data("qq", "ALL")),
     V11Seg("at", Data("qq_int", "123")),
     V11Seg("face", Data("id", "1")), V11Seg("", NoData),
     V11Seg("text", Data("nodata", ""))}

\* neutral segments as a quoted message or a command argument holds them
NeutralSegs ==
    {Text("hi"), Text(" "), Image("url", "u1"), Image("path", "p1"),
     Image("raw_bytes", "b1"), Image("raw_b64", "b1"), Video("url", "u2"),
     Video("raw_bytes", "b2"), At("123"), At("all"), AtAll}

\* raw node descriptors, one for each way a node is read
SimpleRawNodes ==
    {RawNode("dict", Content("str", <<>>, "hi"), "ok"),
     RawNode("dict", Content("str", <<>>, "hi"), "absent"),
     RawNode("dict", Content("str", <<>>, "hi"), "null"),
     RawNode("dict", Content("str", <<>>, " "), "ok"),
     RawNode("dict", NoContent, "ok"),
     RawNode("dict", Content("list", <<V11Seg("image", Data("url", "u1")),
                                       V11Seg("face", Data("id", "1"))>>, ""), "ok"),
     RawNode("nondict", NoContent, "absent")}

\* a forward segment in which n more forward segments are nested, each as
\* the inline content of the one node of the one before; the innermost one
\* has an id only, for which the transport has a node
NestedForward(n) ==
    LET F[k \in 0..n] ==
            IF k = 0
                THEN V11Forward(Forward("X",
                        Answer("list", <<RawNode("dict", Content("str", <<>>, "hi"), "ok")>>),
                        NoInline))
                ELSE V11Forward(Forward("", NoAnswer,
                        Inline("list", <<RawNode("dict",
                                            Content("list", <<F[k - 1]>>, ""), "ok")>>)))
    IN  F[n]

\* a Reference in which n more References are nested
NestedReference(n) ==
    LET F[k \in 0..n] ==
            IF k = 0
                THEN Reference(<<CustomNode("42", "nick", Content("uni", <<Text("hi")>>, ""))>>)
                ELSE Reference(<<CustomNode("42", "nick",
                                    Content("uni", <<F[k - 1], At("123")>>, ""))>>)
    IN  F[n]

\* the forward parts given to _process_forward_content
ForwardInputs ==
    LET lists == SeqsUpTo(SimpleRawNodes, MaxNodes)
    IN  {Forward("", NoAnswer, Inline(form, nodes)) :
            form \in {"list"}, nodes \in lists \ {<<>>}}
        \cup {Forward(fid, Answer("list", <<>>), Inline("json_list", nodes)) :
                fid \in {"", "X"}, nodes \in lists}
        \cup {Forward("X", Answer(kind, nodes), NoInline) :
                kind \in {"list", "messages", "data"}, nodes \in lists}
        \cup {Forward("X", Answer(kind, <<>>), Inline(form, <<>>)) :
                kind \in {"dict_other", "action_failed", "exception"},
                form \in {"none", "json_other", "other", "list"}}
        \cup {Forward("", NoAnswer, Inline(form, <<>>)) :
                form \in {"none", "json_other", "other", "list"}}

\* forward parts of a bundle that the transport answers with a node and with
\* one or two nodes that refer to the same bundle again
SelfForwards ==
    {Forward("X", Answer(kind, <<RawNode("dict", Content("str", <<>>, "hi"), "ok")>>),
             NoInline) : kind \in {"self", "self_twice"}}

\* the message contents given to _extract_content_from_message
ContentInputs ==
    {Content("list", segs, "") :
        segs \in SeqsUpTo(SimpleWireSegs \cup {Text("hi"), Image("empty", ""), AtAll,
                                              Seg("junk", "", NoData, <<>>, NoForward)},
                          MaxSegs)}
    \cup {Content(shape, segs, "") :
            shape \in {"uni", "v11"},
            segs \in {<<>>, <<Text("hi"), NestedReference(0)>>,
                      <<V11Seg("text", Data("text", "hi"))>>}}
    \cup {Content("dict", <<seg>>, "") : seg \in SimpleWireSegs}
    \cup {Content("str", <<>>, t) : t \in {"hi", " ", ""}}
    \cup {Content("other", <<>>, t) : t \in {"none", "7"}}
    \cup {Content("list", <<V11Seg("text", Data("text", "hi")), V11Forward(fwd)>>, "") :
            fwd \in {f \in ForwardInputs : Len(f.content.nodes) + Len(f.answer.nodes) <= 1}}
    \cup {Content("list", <<NestedForward(n), V11Seg("at", Data("qq", "123"))>>, "") :
            n \in 0..MaxNest}
    \cup {Content("list", <<V11Forward(fwd)>>, "") : fwd \in SelfForwards}

\* the neutral messages given to the round trip
MessageInputs ==
    SeqsUpTo(NeutralSegs, MaxSegs)
    \cup {<<Text("hi"), NestedReference(n)>> : n \in 0..MaxNest}

\* the commands given to the target resolution: the bot and the row of the
\* directory the command comes from (NoAddressGroup: not from a group)
ResolveInputs ==
    {[bot |-> b, e |-> e] :
        b \in Bots,
        e \in {NoAddressGroup} \cup {Group(g, c) : g \in 1..NumGroups, c \in {None, 1}}}

\* the broadcasts given to the routing: the bot, the message and the number
\* of targets
RouteInputs ==
    {[bot |-> b, message |-> m, n |-> n] :
        b \in Bots, m \in Messages, n \in 0..NumGroups}

\* the commands given to get_broadcast_target_groups together with the
\* group ids the broadcast task is blocked for
TargetInputs ==
    {[bot |-> x.bot, e |-> x.e, blocked |-> blocked] :
        x \in ResolveInputs, blocked \in SUBSET (1..NumGroups)}

\* nodes of a Reference: a message of one Text, a str, and a message whose
\* one segment converts to nothing
WireNodes ==
    {CustomNode("42", "nick", Content("uni", <<Text("hi")>>, "")),
     CustomNode("10000", "user1000", Content("str", <<>>, "yo")),
     CustomNode("0", "error", Content("uni", <<Image("empty", "")>>, ""))}

\* the References given to uni_segment_to_v11_segment_dict
ToWireInputs ==
    {Reference(nodes) : nodes \in SeqsUpTo(WireNodes, MaxNodes)}
    \cup {NestedReference(n) : n \in 0..MaxNest}

\* the applications that have not been carried out yet
PendingCalls ==
    {[fn |-> "extract", arg |-> mc, depth |-> d, done |-> FALSE, out |-> Result(<<>>)] :
        mc \in ContentInputs, d \in 0..MaxDepthArg}
    \cup {[fn |-> "forward", arg |-> fwd, depth |-> d, done |-> FALSE, out |-> Result(<<>>)] :
            fwd \in ForwardInputs, d \in 0..(MAX_FORWARD_DEPTH - 1)}
    \cup {[fn |-> "roundtrip", arg |-> msg, depth |-> 0, done |-> FALSE, out |-> Result(<<>>)] :
            msg \in MessageInputs}
    \cup {[fn |-> "resolve", arg |-> x, depth |-> 0, done |-> FALSE, out |-> Result(<<>>)] :
            x \in {y \in ResolveInputs :
                     \E i \in 1..Len(get_group_list(y.bot)) :
                        y.e \in {NoAddressGroup, get_group_list(y.bot)[i]}}}
    \cup {[fn |-> "route", arg |-> x, depth |-> 0, done |-> FALSE, out |-> Result(<<>>)] :
            x \in RouteInputs}
    \cup {[fn |-> "targets", arg |-> x, depth |-> 0, done |-> FALSE, out |-> Result(<<>>)] :
            x \in TargetInputs}
    \cup {[fn |-> "towire", arg |-> seg, depth |-> d, done |-> FALSE, out |-> Result(<<>>)] :
            seg \in ToWireInputs, d \in 0..WireDepthLimit}

InitFunctions ==
    /\ last_broadcast_msg_ids = <<>>
    /\ pc = [p \in Procs |-> "idle"]
    /\ entry = [p \in Procs |-> "none"]
    /\ bot = [p \in Procs |-> NoBot]
    /\ group_list = [p \in Procs |-> <<>>]
    /\ idx = [p \in Procs |-> 0]
    /\ route = [p \in Procs |-> "none"]
    /\ success_count = [p \in Procs |-> 0]
    /\ error_count = [p \in Procs |-> 0]
    /\ skip_count = [p \in Procs |-> 0]
    /\ msg_ids_to_recall = [p \in Procs |-> <<>>]
    /\ ret = [p \in Procs |-> <<0, 0>>]
    /\ sleepFor = [p \in Procs |-> 0]
    /\ trace = [p \in Procs |-> <<>>]
    /\ inflight = {}
    /\ gen = 0
    /\ myGen = [p \in Procs |-> 0]
    /\ ops = 0
    /\ replaced = FALSE
    /\ prev = NoPrev
    /\ call \in PendingCalls

\* everything but call
broadcastVars == <<last_broadcast_msg_ids, pc, entry, bot, group_list, idx, route,
                   success_count, error_count, skip_count, msg_ids_to_recall, ret,
                   sleepFor, trace, inflight, gen, myGen, ops, replaced, prev>>

\* _extract_content_from_message(message_content, bot, depth)
ApplyExtract ==
    /\ call.fn = "extract" /\ ~call.done
    /\ call' = [call EXCEPT !.done = TRUE, !.out = ExtractContent(call.arg, call.depth)]
    /\ UNCHANGED broadcastVars

\* _process_forward_content(forward_content, forward_id, bot, depth)
ApplyForward ==
    /\ call.fn = "forward" /\ ~call.done
    /\ call' = [call EXCEPT !.done = TRUE,
                            !.out = ProcessForwardContent(call.arg, call.depth)]
    /\ UNCHANGED broadcastVars

\* a neutral message converted to its wire form and read back
ApplyRoundTrip ==
    /\ call.fn = "roundtrip" /\ ~call.done
    /\ call' = [call EXCEPT !.done = TRUE, !.out = RoundTrip(call.arg)]
    /\ UNCHANGED broadcastVars

\* the target set of get_broadcast_target_groups for a command from row e
ApplyResolve ==
    /\ call.fn = "resolve" /\ ~call.done
    /\ call' = [call EXCEPT !.done = TRUE,
                    !.out = Result(TargetGroups(get_group_list(call.arg.bot),
                                                call.arg.e.group_id))]
    /\ UNCHANGED broadcastVars

\* the send calls send_to_specific_groups makes for a bot, a message and a
\* number of targets
ApplyRoute ==
    /\ call.fn = "route" /\ ~call.done
    /\ call' = [call EXCEPT !.done = TRUE,
                    !.out = Result(SendCalls(call.arg.bot, call.arg.message,
                                             call.arg.n))]
    /\ UNCHANGED broadcastVars

\* get_broadcast_target_groups(bot, session) for a command from row e
ApplyTargets ==
    /\ call.fn = "targets" /\ ~call.done
    /\ call' = [call EXCEPT !.done = TRUE,
                    !.out = Result(BroadcastTargets(get_group_list(call.arg.bot),
                                                    call.arg.e.group_id,
                                                    call.arg.blocked))]
    /\ UNCHANGED broadcastVars

\* uni_segment_to_v11_segment_dict(seg, depth) for a Reference
ApplyToWire ==
    /\ call.fn = "towire" /\ ~call.done
    /\ call' = [call EXCEPT !.done = TRUE,
                    !.out = Result(uni_segment_to_v11_segment_dict(call.arg, call.depth))]
    /\ UNCHANGED broadcastVars

\* ----------------------------------------------------------- specifications
\* the steps of the distribution loop and of the recall loop
LoopStep(p) ==
    \/ SendToSpecificGroups(p)
    \/ CheckGroupAvailability(p)
    \/ SendIssue(p)
    \/ SendSucceeds(p)
    \/ SendRaises(p)
    \/ PacingSleep(p)
    \/ WakeUp(p)
    \/ PassReturns(p)
    \/ DeleteIssue(p)
    \/ DeleteReturns(p)
    \/ RecallSleep(p)
    \/ RecallReturns(p)
    \/ Finish(p)

\* the steps of the two command handlers after their start
HandlerStep(p) ==
    \/ GetBroadcastTargetGroups(p)
    \/ SendBroadcastAndNotify(p)
    \/ LoopStep(p)

\* Calls are serialized: one task takes one call after the other.  A call
\* enters through a handler or through a public method of BroadcastManager.
Next ==
    \/ ops < MaxCalls /\ HandleBroadcast(MainProc)
    \/ ops < MaxCalls /\ RecallLastBroadcast(MainProc)
    \/ ops < MaxCalls /\ Send(MainProc)
    \/ ops < MaxCalls /\ DirectCall(MainProc)
    \/ HandlerStep(MainProc)

Spec == Init /\ [][Next]_vars

\* The bot as deployed: broadcasts and recalls only come from the two
\* command handlers, one command after the other.
NextHandlers ==
    \/ ops < MaxOps /\ HandleBroadcast(MainProc)
    \/ ops < MaxOps /\ RecallLastBroadcast(MainProc)
    \/ HandlerStep(MainProc)

SpecHandlers == Init /\ [][NextHandlers]_vars

\* Commands that overlap.  The handlers are coroutines of one event loop:
\* a second command is taken by another task while the first is suspended at
\* an await (task_is_block, the send call, the delete call, a sleep), and
\* each action of the model is the code between two awaits.  Both tasks work
\* on the one class attribute _last_broadcast_msg_ids.
\* the bot the overlapping commands come in on: OneBot V11 on qq
ConcurrentBot == [platform |-> "qq", v11 |-> TRUE]

\* the records a broadcast to every group of the bot left, every send having
\* returned an id
EarlierRecords ==
    LET gl == get_group_list(ConcurrentBot)
    IN  [i \in 1..Len(gl) |-> [key |-> NormalKey(gl[i]), id |-> FreshId(1, gl[i])]]

\* the state after one broadcast of the handler that reached every group
InitConcurrent ==
    /\ last_broadcast_msg_ids = EarlierRecords
    /\ pc = [p \in Procs |-> "idle"]
    /\ entry = [p \in Procs |-> "none"]
    /\ bot = [p \in Procs |-> NoBot]
    /\ group_list = [p \in Procs |-> <<>>]
    /\ idx = [p \in Procs |-> 0]
    /\ route = [p \in Procs |-> "none"]
    /\ success_count = [p \in Procs |-> 0]
    /\ error_count = [p \in Procs |-> 0]
    /\ skip_count = [p \in Procs |-> 0]
    /\ msg_ids_to_recall = [p \in Procs |-> <<>>]
    /\ ret = [p \in Procs |-> <<0, 0>>]
    /\ sleepFor = [p \in Procs |-> 0]
    /\ trace = [p \in Procs |-> <<>>]
    /\ inflight = {}
    /\ gen = 1
    /\ myGen = [p \in Procs |-> 0]
    /\ ops = 1
    /\ replaced = FALSE
    /\ prev = [kind |-> "broadcast", cleared |-> TRUE,
               success |-> Len(EarlierRecords), records |-> Len(EarlierRecords)]
    /\ call = NoCall

\* a command may be taken when fewer than MaxCalls were taken since the
\* start; the second task takes one only while the first is busy
MayTake(p) ==
    /\ ops <= MaxCalls
    /\ p # MainProc => pc[MainProc] # "idle"

\* handle_broadcast for a command that comes in on ConcurrentBot
ConcurrentBroadcast(p) ==
    /\ MayTake(p)
    /\ HandleBroadcast(p)
    /\ bot'[p] = ConcurrentBot

\* handle_broadcast_recall for a command that comes in on ConcurrentBot
ConcurrentRecall(p) ==
    /\ MayTake(p)
    /\ RecallLastBroadcast(p)
    /\ bot'[p] = ConcurrentBot

NextConcurrent ==
    \E p \in Procs :
        \/ ConcurrentBroadcast(p)
        \/ ConcurrentRecall(p)
        \/ HandlerStep(p)

SpecConcurrent == InitConcurrent /\ [][NextConcurrent]_vars

\* The functions of the plugin that change no state, each applied once to
\* one of its inputs.
NextFunctions ==
    \/ ApplyExtract
    \/ ApplyForward
    \/ ApplyRoundTrip
    \/ ApplyResolve
    \/ ApplyRoute
    \/ ApplyTargets
    \/ ApplyToWire

SpecFunctions == InitFunctions /\ [][NextFunctions]_vars

\* ------------------------------------------------------------------ claims
\* the broadcast invocation that wrote a record with this id
GenOf(id) == id \div 10

\* a distribution loop has run to its end and returned its counts
PassReturned(p) == pc[p] = "returned" /\ route[p] \in {"normal", "forward"}

\* the events of a trace that are of one of the given kinds, in order
EventsOf(t, kinds) == SelectSeq(t, LAMBDA e : e.ev \in kinds)

\* C1: a distribution pass that returns has counted every target of its list
\* exactly once: success_count + error_count + skip_count = len(group_list).
C1_EveryTargetCounted ==
    \A p \in Procs :
        PassReturned(p) =>
            success_count[p] + error_count[p] + skip_count[p] = Len(group_list[p])

\* a pass over a list with a row without address, a blocked or unaddressed
\* skip, a successful send and a raising send has returned
C1_Witness ==
    \E p \in Procs :
        /\ PassReturned(p)
        /\ CountEv(trace[p], "skip_noaddr") >= 1
        /\ CountEv(trace[p], "sent") >= 1
        /\ CountEv(trace[p], "send_raised") >= 1

\* C2 (as claimed): no failure met while a target is handled ends the loop
\* early; every failure is counted in error_count and the loop goes on.
C2_FailureNeverAborts ==
    \A p \in Procs :
        /\ pc[p] # "raised"
        /\ entry[p] \in {"handler", "send", "direct"} =>
              error_count[p] = CountEv(trace[p], "send_raised")
                               + CountEv(trace[p], "check_raised")

\* a recall has returned and the call completed before it was a broadcast
RecallAfterBroadcast(p) == pc[p] = "recall_returned" /\ prev.kind = "broadcast"

\* C3 (as claimed): the recall that follows a broadcast with N successes
\* issues exactly N delete calls and leaves the map empty.
C3_DeletesEqualSuccesses ==
    \A p \in Procs :
        RecallAfterBroadcast(p) =>
            /\ CountEv(trace[p], "delete") = prev.success
            /\ last_broadcast_msg_ids = <<>>

\* C3 (amended): the recall that follows a broadcast entered through send or
\* send_broadcast_and_notify issues exactly one delete call for each record
\* the broadcast left in the map, never more than the broadcast's successes,
\* and leaves the map empty.
C3_DeletesEqualRecords ==
    \A p \in Procs :
        RecallAfterBroadcast(p) /\ prev.cleared =>
            /\ CountEv(trace[p], "delete") = prev.records
            /\ CountEv(trace[p], "delete") <= prev.success
            /\ last_broadcast_msg_ids = <<>>

\* a recall has deleted the records of a broadcast that had more successes
\* than records, and more than one record
C3_Witness ==
    \E p \in Procs :
        /\ RecallAfterBroadcast(p) /\ prev.cleared
        /\ prev.records >= 2
        /\ prev.success > prev.records
        /\ CountEv(trace[p], "delete") = prev.records

\* send_to_specific_groups has returned or raised
DistributeEnded(p) ==
    pc[p] \in {"returned", "raised"} /\ entry[p] \in {"handler", "send", "direct"}

\* every record of the map was written by the running invocation
OnlyOwnRecords(p) ==
    \A i \in 1..Len(last_broadcast_msg_ids) :
        GenOf(last_broadcast_msg_ids[i].id) = myGen[p]

C5_OneGeneration ==
    /\ \A i, j \in 1..Len(last_broadcast_msg_ids) :
          GenOf(last_broadcast_msg_ids[i].id) = GenOf(last_broadcast_msg_ids[j].id)
    /\ \A p \in Procs : \A k \in 1..Len(trace[p]) :
          trace[p][k].ev = "delete" => GenOf(trace[p][k].id) = gen

\* a recall issues a delete after a second broadcast replaced the records of
\* a first one
C5_Witness ==
    \E p \in Procs :
        /\ pc[p] = "deleting"
        /\ gen >= 2
        /\ prev.kind = "broadcast"
        /\ replaced

\* C6: a recall that follows a recall, with no broadcast between them,
\* returns (0, 0) and issues no delete call.
C6_SecondRecallEmpty ==
    \A p \in Procs :
        pc[p] = "recall_returned" /\ prev.kind = "recall" =>
            /\ ret[p] = <<0, 0>>
            /\ CountEv(trace[p], "delete") = 0

\* a recall has returned after a recall that went through records and did not
\* delete all of them successfully
C6_Witness ==
    \E p \in Procs :
        /\ pc[p] = "recall_returned" /\ prev.kind = "recall"
        /\ prev.records >= 2
        /\ prev.success < prev.records

\* the identity key of a target: "groupId:channelId" with a channel id,
\* else groupId
IdentityKey(g) ==
    IF g.channel_id # None THEN <<g.group_id, g.channel_id>> ELSE <<g.group_id>>

\* the "sent" events of a trace, in order
SentEvents(t) == EventsOf(t, {"sent"})

\* the skips of a trace
Skips(t) == CountEv(t, "skip_blocked") + CountEv(t, "skip_noaddr")

\* a pass of the ordinary loop, begun on a cleared map, in which targets were
\* blocked and every send to another target returned a receipt with an id
BlockedOrDelivered(p) ==
    /\ PassReturned(p) /\ route[p] = "normal"
    /\ entry[p] \in {"handler", "send"}
    /\ \A k \in 1..Len(trace[p]) :
          /\ trace[p][k].ev \in {"skip_blocked", "send", "sent", "sleep"}
          /\ trace[p][k].ev = "sent" => trace[p][k].id # None

\* C7: such a pass returns success = unblocked targets, error = 0, skip =
\* blocked targets, and the map is exactly the mapping from each unblocked
\* target's identity key to the id of its receipt.
C7_BlockedSkippedOthersRecorded ==
    \A p \in Procs :
        BlockedOrDelivered(p) =>
            LET sent == SentEvents(trace[p])
            IN  /\ success_count[p] = Len(sent)
                /\ error_count[p] = 0
                /\ skip_count[p] = CountEv(trace[p], "skip_blocked")
                /\ success_count[p] + skip_count[p] = Len(group_list[p])
                /\ last_broadcast_msg_ids =
                        [k \in 1..Len(sent) |->
                            [key |-> IdentityKey(group_list[p][sent[k].i]),
                             id |-> sent[k].id]]

\* the pass over [G1 blocked, G2, G3] with both sends delivered has returned
C7_Witness ==
    \E p \in Procs :
        /\ BlockedOrDelivered(p)
        /\ Len(group_list[p]) = 3
        /\ trace[p][1].ev = "skip_blocked"
        /\ success_count[p] = 2
        /\ Len(last_broadcast_msg_ids) = 2

\* C8: in a pass in which exactly one send raised, that target adds one to
\* error_count and nothing else (no success, no skip, no record); every other
\* send counts as a success and every skipped target as a skip.
C8_OneRaisingSend ==
    \A p \in Procs :
        PassReturned(p) /\ CountEv(trace[p], "send_raised") = 1 =>
            LET raised == EventsOf(trace[p], {"send_raised"})[1]
            IN  /\ error_count[p] = 1
                /\ success_count[p] = CountEv(trace[p], "sent")
                /\ skip_count[p] = Skips(trace[p])
                /\ success_count[p] + skip_count[p] = Len(group_list[p]) - 1
                /\ \A i \in 1..Len(last_broadcast_msg_ids) :
                      last_broadcast_msg_ids[i].id
                          # FreshId(myGen[p], group_list[p][raised.i])

\* the pass over [G1 blocked, G2, G3] with the send to G3 raising has returned
C8_Witness ==
    \E p \in Procs :
        /\ PassReturned(p)
        /\ Len(group_list[p]) = 3
        /\ trace[p][1].ev = "skip_blocked"
        /\ CountEv(trace[p], "sent") = 1
        /\ trace[p][Len(trace[p])] = Ev("send_raised", 3, None)

\* C9 (as claimed): every send attempt, delivered or raising, is followed by
\* a pacing sleep of 1 to 3 time units before the next send is issued.
C9_SleepAfterEveryAttempt ==
    \A p \in Procs :
        /\ pc[p] = "sleeping" => sleepFor[p] \in PaceMin..PaceMax
        /\ \A j, k \in 1..Len(trace[p]) :
              /\ j < k
              /\ trace[p][j].ev \in {"sent", "send_raised"}
              /\ trace[p][k].ev = "send"
              => \E m \in (j + 1)..(k - 1) : trace[p][m].ev = "sleep"

\* the events that end the handling of a target
EndOfTarget == {"skip_blocked", "skip_noaddr", "send_raised", "sleep"}

\* C10: targets are handled one after the other in list order: a send for
\* position i is issued only when the handling of position i - 1 has ended
\* (skip, raising send, or pacing sleep over), and a broadcast has at most
\* one send in flight, the one for the current position.
C10_SequentialInOrder ==
    \A p \in Procs :
        /\ \A k \in 1..Len(trace[p]) :
              trace[p][k].ev = "send" =>
                  IF trace[p][k].i = 1 THEN k = 1
                  ELSE /\ k > 1
                       /\ trace[p][k - 1].ev \in EndOfTarget
                       /\ trace[p][k - 1].i = trace[p][k].i - 1
        /\ \A k \in 1..Len(trace[p]) :
              k > 1 /\ entry[p] # "recall" =>
                  trace[p][k].i \in {trace[p][k - 1].i, trace[p][k - 1].i + 1}
        /\ pc[p] = "sending" => sleepFor[p] = 0
        /\ {x \in inflight : x[1] = p /\ x[2] = "send"}
              \subseteq {<<p, "send", idx[p]>>}

\* the send for the third target is in flight after a skip and a paced send
C10_Witness ==
    \E p \in Procs :
        /\ pc[p] = "sending" /\ idx[p] = 3
        /\ <<p, "send", 3>> \in inflight
        /\ CountEv(trace[p], "sleep") >= 1
        /\ Skips(trace[p]) >= 1

\* the events that record a skipped target
SkipEvents == {"skip_blocked", "skip_noaddr"}

\* C11: a target that is blocked when the loop re-checks it, or that has no
\* group id or no target object, is skipped: every skip adds one to skip_count
\* and no send call is issued for a skipped position, also when the target
\* passed the block filter of the target resolution.
C11_SkippedNeverSent ==
    \A p \in Procs :
        entry[p] \in {"handler", "send", "direct"} =>
            /\ skip_count[p] = Skips(trace[p])
            /\ \A j, k \in 1..Len(trace[p]) :
                  trace[p][j].ev \in SkipEvents /\ trace[p][k].ev = "send"
                      => trace[p][j].i # trace[p][k].i

\* a pass the handler started, over targets that were all unblocked at
\* resolution, has returned with one target skipped as blocked at the re-check
\* and another one sent to
C11_Witness ==
    \E p \in Procs :
        /\ PassReturned(p) /\ entry[p] = "handler"
        /\ CountEv(trace[p], "skip_blocked") >= 1
        /\ CountEv(trace[p], "send") >= 1
        /\ skip_count[p] = CountEv(trace[p], "skip_blocked")

\* a target resolution has been applied for a command that came from a row
\* of the candidate list
ResolvedWithExclude ==
    /\ call.fn = "resolve" /\ call.done
    /\ \E i \in 1..Len(get_group_list(call.arg.bot)) :
          get_group_list(call.arg.bot)[i] = call.arg.e

\* C12 (as claimed): for every candidate list T and every exclude target e of
\* T, the target set is T without e and has |T| - 1 entries: e is removed and
\* every other candidate is kept.
C12_ExcludeRemovesExactlyOne ==
    ResolvedWithExclude =>
        LET T == get_group_list(call.arg.bot)
        IN  /\ call.out.val = SelectSeq(T, LAMBDA g : g # call.arg.e)
            /\ Len(call.out.val) = Len(T) - 1

\* the number of records the call completed last left in the map
RecordsLeft == IF prev.kind = "broadcast" THEN prev.records ELSE 0

\* C13: when the target set or the enabled set is empty, handle_broadcast
\* returns after the report of get_broadcast_target_groups: it starts no
\* distribution, issues no send, touches no record and raises nothing.
C13_NoTargetsNoDistribution ==
    \A p \in Procs :
        entry[p] = "handler" /\ pc[p] # "resolve" /\ group_list[p] = <<>> =>
            /\ pc[p] = "noop"
            /\ trace[p] = <<>>
            /\ myGen[p] = 0
            /\ {x \in inflight : x[1] = p} = {}
            /\ Len(last_broadcast_msg_ids) = RecordsLeft

\* a broadcast command has found targets, all of them blocked, while the
\* records of an earlier broadcast are in the map
C13_Witness ==
    \E p \in Procs :
        /\ entry[p] = "handler" /\ pc[p] = "noop"
        /\ get_group_list(bot[p]) # <<>>
        /\ prev.kind = "broadcast"
        /\ last_broadcast_msg_ids # <<>>

\* _extract_content_from_message has been applied and has returned or raised
Extracted == call.fn = "extract" /\ call.done

\* the content [forward segment with n forwards nested in it, at segment]
NestedInput(n) ==
    Content("list", <<NestedForward(n), V11Seg("at", Data("qq", "123"))>>, "")

\* C14: for every depth d >= 3 and every content, _extract_content_from_message
\* returns exactly the one placeholder Text "nested forward too deep", issues
\* no fetch and makes no further call; a content that nests three or more
\* forward bundles is resolved from depth 0 without the fetch its innermost
\* bundle asks for.
C14_DepthCapAbsolute ==
    /\ Extracted /\ call.depth >= MAX_FORWARD_DEPTH =>
          call.out = Result(<<Text(TooDeepText)>>)
    /\ \A n \in MAX_FORWARD_DEPTH..MaxNest :
          Extracted /\ call.depth = 0 /\ call.arg = NestedInput(n) =>
              ~call.out.raised /\ call.out.fetches = 0

\* the content [forward segment with an id the transport knows, at segment]
\* has been extracted at depth 3
C14_Witness ==
    /\ Extracted
    /\ call.depth = MAX_FORWARD_DEPTH
    /\ call.arg = NestedInput(0)
    /\ ExtractContent(call.arg, 0).fetches = 1
    /\ Len(call.out.val) = 1

\* C15 (as claimed): _process_forward_content never raises to its caller;
\* whatever the inline content, the id and the answer of the fetch are, it
\* returns a list of nodes.
C15_ForwardNeverRaises ==
    call.fn = "forward" /\ call.done => ~call.out.raised

\* _process_forward_content has been applied to a forward part without
\* parsable inline content, with an id for which the fetch answers an empty list
EmptyFetch ==
    /\ call.fn = "forward" /\ call.done
    /\ call.arg.content.form \notin {"list", "json_list"}
    /\ call.arg.fid # ""
    /\ call.arg.answer.kind \in {"list", "messages", "data"}
    /\ call.arg.answer.nodes = <<>>

\* C16 (as claimed): when there are no inline nodes and the fetch answers an
\* empty list, the resolver returns exactly one node, whose content is the
\* "empty content" placeholder, and raises nothing.
C16_EmptyFetchGivesEmptyContent ==
    EmptyFetch =>
        /\ ~call.out.raised
        /\ Len(call.out.val) = 1
        /\ call.out.val[1].content = Content("str", <<>>, EmptyContentText)

\* C16 (amended): when there are no inline nodes and the fetch answers an
\* empty list, the resolver returns exactly one node, whose content is the
\* "fetch failed" placeholder, after one fetch, and raises nothing; the "empty
\* content" placeholder is what inline content that parses to a list without
\* nodes gives, without any fetch.
C16_EmptyFetchGivesFetchFailed ==
    /\ EmptyFetch =>
          /\ ~call.out.raised
          /\ call.out.val = <<PlaceholderNode("error", FetchFailedText)>>
          /\ call.out.fetches = 1
    /\ /\ call.fn = "forward" /\ call.done
       /\ call.arg.content = Inline("json_list", <<>>)
       => /\ ~call.out.raised
          /\ call.out.val = <<PlaceholderNode("info", EmptyContentText)>>
          /\ call.out.fetches = 0

\* the resolver has answered a bundle id for which the fetch returned []
C16_Witness ==
    /\ EmptyFetch
    /\ call.arg.answer.kind = "list"
    /\ call.arg.content = NoInline
    /\ Len(call.out.val) = 1

\* the round trip has been applied to a message
RoundTripped == call.fn = "roundtrip" /\ call.done

\* the message has no forward bundle
Flat(msg) == \A i \in 1..Len(msg) : msg[i].type # "reference"

\* the kinds of the segments of a message, in order
Kinds(msg) == [i \in 1..Len(msg) |-> msg[i].type]

KindBack(seg) ==
    IF seg.type = "text" /\ IsBlank(seg.data.v) THEN <<>>
    ELSE IF seg.type = "at" /\ seg.data.v \in {"all", "ALL"} THEN <<"at_all">>
    ELSE <<seg.type>>

\* the kinds that come back for a message, in order
KindsBack(msg) ==
    LET F[n \in 0..Len(msg)] ==
            IF n = 0 THEN <<>> ELSE F[n - 1] \o KindBack(msg[n])
    IN  F[Len(msg)]

\* the number of segments that are the "too deep" placeholder
TooDeepCount(msg) ==
    Cardinality({i \in 1..Len(msg) : msg[i] = Text(TooDeepText)})

Recognized(seg) ==
    IF seg.rep = "uni"
        THEN IF seg.type = "text" /\ ~IsBlank(seg.data.v) THEN <<"text">>
             ELSE IF seg.type \in {"image", "video"} /\ seg.data.f # "empty"
                 THEN <<seg.type>>
             ELSE IF seg.type \in {"at", "at_all"} THEN <<seg.type>>
             ELSE <<>>
    ELSE IF seg.rep = "wire"
        THEN IF seg.type = "text" /\ seg.data.f = "text" /\ ~IsBlank(seg.data.v)
                 THEN <<"text">>
             ELSE IF seg.type \in {"image", "video"}
                     /\ seg.data.f \in {"url", "file", "file_uri", "file_b64"}
                 THEN <<seg.type>>
             ELSE IF seg.type = "at" /\ seg.data.f = "qq" /\ seg.data.v \in {"all", "ALL"}
                 THEN <<"at_all">>
             ELSE IF seg.type = "at" /\ seg.data.f = "qq" /\ seg.data.v # ""
                 THEN <<"at">>
             ELSE <<>>
    ELSE <<>>

\* the kinds the segments of a list are recognized as, in order
RecognizedKinds(segs) ==
    LET F[n \in 0..Len(segs)] ==
            IF n = 0 THEN <<>> ELSE F[n - 1] \o Recognized(segs[n])
    IN  F[Len(segs)]

\* the input is a list of segments none of which is a forward segment
NoForwardIn(mc) ==
    /\ mc.shape \in {"uni", "v11", "list", "dict"}
    /\ \A i \in 1..Len(mc.segs) : mc.segs[i].type \notin {"forward", "reference"}

\* C18: _extract_content_from_message never raises, whatever the shape of its
\* input.  Below the depth bound, a segment of an unknown type, a malformed
\* one and one whose handling fails add nothing, and the recognized segments
\* come back in their order; a forward segment adds one bundle or nothing; an
\* input of another type gives an empty message.
C18_ExtractionTotal ==
    Extracted =>
        /\ ~call.out.raised
        /\ call.depth < MAX_FORWARD_DEPTH /\ NoForwardIn(call.arg) =>
              Kinds(call.out.val) = RecognizedKinds(call.arg.segs)
        /\ /\ call.depth < MAX_FORWARD_DEPTH
           /\ call.arg.shape = "list" /\ Len(call.arg.segs) = 2
           /\ call.arg.segs[1] = V11Seg("text", Data("text", "hi"))
           /\ call.arg.segs[2].type = "forward"
           => /\ call.out.val[1] = Text("hi")
              /\ Len(call.out.val) \in {1, 2}
              /\ Len(call.out.val) = 2 => call.out.val[2].type = "reference"
        /\ call.depth < MAX_FORWARD_DEPTH /\ call.arg.shape = "other" =>
              call.out.val = <<>>

\* the list [image with invalid base64, text "hi"] has been extracted: the
\* image raised inside and was dropped, the text was kept
C18_Witness ==
    /\ Extracted /\ call.depth = 0
    /\ call.arg = Content("list", <<V11Seg("image", Data("file_badb64", "")),
                                    V11Seg("text", Data("text", "hi"))>>, "")
    /\ ProcessV11Segment(call.arg.segs[1], 0).raised
    /\ call.out.val = <<Text("hi")>>

\* an ActionFailed with this retcode and wording
Failure(retcode, wording) ==
    [kind |-> "action_failed", e |-> [retcode |-> retcode, wording |-> wording]]

\* the events of a recall that record a classified delete outcome
OutcomeEvents == {"deleted", "benign", "failed"}

\* C19: every delete outcome of a recall is classified exactly one way: a
\* delete that returns adds one to success_count; ActionFailed with retcode
\* 100 and MESSAGE_NOT_FOUND in the upper-cased wording, or with retcode 300
\* and "delete message" in the lower-cased wording, changes neither count;
\* every other failure adds one to error_count.  A failure never ends the
\* loop: every record of the copy gets its delete call, in the order of the
\* copy, and the counts returned are the counts of the outcomes.
C19_DeleteOutcomesClassified ==
    /\ Classify([kind |-> "ok"]) = "deleted"
    /\ Classify([kind |-> "exception"]) = "failed"
    /\ Classify(Failure(RetcodeNotFound, "MESSAGE_NOT_FOUND")) = "benign"
    /\ Classify(Failure(RetcodeNotFound, "message_not_found")) = "benign"
    /\ Classify(Failure(RetcodeDeleteFailed, "Failed To Delete Message")) = "benign"
    /\ Classify(Failure(RetcodeNotFound, "Failed To Delete Message")) = "failed"
    /\ Classify(Failure(RetcodeDeleteFailed, "MESSAGE_NOT_FOUND")) = "failed"
    /\ Classify(Failure(RetcodeNotFound, "timeout")) = "failed"
    /\ Classify(Failure(None, "MESSAGE_NOT_FOUND")) = "failed"
    /\ Classify(Failure(1404, "")) = "failed"
    /\ \A p \in Procs :
          entry[p] = "recall" =>
              LET outcomes == EventsOf(trace[p], OutcomeEvents)
                  deletes == EventsOf(trace[p], {"delete"})
              IN  /\ success_count[p] = CountEv(trace[p], "deleted")
                  /\ error_count[p] = CountEv(trace[p], "failed")
                  /\ Len(outcomes) <= Len(deletes)
                  /\ Len(deletes) <= Len(outcomes) + 1
                  /\ \A k \in 1..Len(deletes) :
                        /\ deletes[k].i = k
                        /\ deletes[k].id = msg_ids_to_recall[p][k].id
                  /\ pc[p] = "recall_returned" =>
                        /\ Len(deletes) = Len(msg_ids_to_recall[p])
                        /\ Len(outcomes) = Len(deletes)
                        /\ ret[p] = <<CountEv(trace[p], "deleted"),
                                      CountEv(trace[p], "failed")>>

\* a recall over three records has returned (1, 1): the first delete failed,
\* the second met the benign pattern, the third returned
C19_Witness ==
    \E p \in Procs :
        /\ pc[p] = "recall_returned"
        /\ Len(msg_ids_to_recall[p]) = 3
        /\ EventsOf(trace[p], OutcomeEvents)[1].ev = "failed"
        /\ EventsOf(trace[p], OutcomeEvents)[2].ev = "benign"
        /\ EventsOf(trace[p], OutcomeEvents)[3].ev = "deleted"
        /\ ret[p] = <<1, 1>>

\* send_to_specific_groups returned without entering a loop: the target list
\* was empty, or the forward nodes built from the message were
NothingToDo(p) == pc[p] = "returned" /\ route[p] \in {"none", "empty"}

\* C20: a call of send_to_specific_groups that does nothing, for want of
\* targets or because the message converts to no forward node, returns a
\* result that no pass over the targets returns, be it a pass whose sends all
\* failed or whose targets were all skipped; and it raises no exception.
C20_NothingToDoDistinguishable ==
    /\ \A p \in Procs : route[p] \in {"none", "empty"} => pc[p] # "raised"
    /\ \A p \in Procs :
          NothingToDo(p) =>
              ret[p] = IF route[p] = "none" THEN NoTargetsResult
                                            ELSE EmptyNodesResult(group_list[p])
    /\ \A p \in Procs :
          PassReturned(p) =>
              /\ ret[p] # NoTargetsResult
              /\ ret[p] # EmptyNodesResult(group_list[p])

\* the parts of C20 that hold: the call that does nothing returns, it does
\* not raise, and its result is (0, 0) or (0, number of targets)
C20_NothingToDoReturns ==
    \A p \in Procs :
        route[p] \in {"none", "empty"} /\ pc[p] \in {"returned", "raised"} =>
            /\ pc[p] = "returned"
            /\ ret[p] \in {NoTargetsResult, EmptyNodesResult(group_list[p])}

\* a pass over two targets skipped both and returned (0, 0)
C20_AllSkipped ==
    \E p \in Procs :
        /\ PassReturned(p)
        /\ Len(group_list[p]) = 2
        /\ skip_count[p] = 2
        /\ ret[p] = NoTargetsResult

\* a pass over two targets whose sends both raised returned (0, 2)
C20_AllFailed ==
    \E p \in Procs :
        /\ PassReturned(p)
        /\ Len(group_list[p]) = 2
        /\ error_count[p] = 2
        /\ ret[p] = EmptyNodesResult(group_list[p])

\* C21: recall_last_broadcast on an empty map returns (0, 0) at once: from
\* its first step it is at its return, it has issued no delete call and has
\* not slept, and the map is empty as before.
C21_EmptyRecallImmediate ==
    \A p \in Procs :
        entry[p] = "recall" /\ msg_ids_to_recall[p] = <<>> =>
            /\ pc[p] = "recall_returned"
            /\ ret[p] = <<0, 0>>
            /\ trace[p] = <<>>
            /\ \A i \in 0..(NumGroups * 3) : <<p, "delete", i>> \notin inflight
            /\ last_broadcast_msg_ids = <<>>

\* a recall that found the map empty has returned, after a broadcast that
\* left no record behind
C21_Witness ==
    \E p \in Procs :
        /\ entry[p] = "recall"
        /\ pc[p] = "recall_returned"
        /\ msg_ids_to_recall[p] = <<>>
        /\ prev.kind = "broadcast"
        /\ ret[p] = <<0, 0>>

\* C22: a recall that went through a non-empty copy leaves the map empty on
\* its return, whatever its deletes did (returned, failed benignly, failed):
\* no record, and so no record whose delete failed, is left for a later
\* recall, and a recall that follows a recall finds nothing to go through.
C22_RecallAlwaysClears ==
    \A p \in Procs :
        /\ pc[p] = "recall_returned" /\ msg_ids_to_recall[p] # <<>> =>
              /\ last_broadcast_msg_ids = <<>>
              /\ \A k \in 1..Len(msg_ids_to_recall[p]) :
                    \A i \in 1..Len(last_broadcast_msg_ids) :
                        last_broadcast_msg_ids[i].id # msg_ids_to_recall[p][k].id
        /\ entry[p] = "recall" /\ prev.kind = "recall" =>
              msg_ids_to_recall[p] = <<>>

\* a recall over two records has returned with one delete failed and one
\* returned, and the map is empty
C22_Witness ==
    \E p \in Procs :
        /\ pc[p] = "recall_returned"
        /\ Len(msg_ids_to_recall[p]) = 2
        /\ CountEv(trace[p], "failed") = 1
        /\ CountEv(trace[p], "deleted") = 1
        /\ last_broadcast_msg_ids = <<>>

\* the send of process p returns in this step with a receipt from which no
\* integer id is recorded
IdlessSendReturns(p) ==
    /\ pc[p] = "sending"
    /\ pc'[p] # "sending"
    /\ Len(trace'[p]) = Len(trace[p]) + 1
    /\ trace'[p][Len(trace'[p])].ev = "sent"
    /\ trace'[p][Len(trace'[p])].id = None

\* C23: a send that returns without raising counts as a success also when no
\* integer id can be taken from its receipt (a shape that is neither dict nor
\* Receipt, a dict without message_id, an empty id list, an id that int()
\* rejects): success_count goes up by one, error_count and the map stay as
\* they are, and the pacing sleep follows as after any success.
C23_IdlessSendIsSuccess ==
    [][\A p \in Procs :
          IdlessSendReturns(p) =>
              /\ success_count'[p] = success_count[p] + 1
              /\ error_count'[p] = error_count[p]
              /\ skip_count'[p] = skip_count[p]
              /\ last_broadcast_msg_ids' = last_broadcast_msg_ids
              /\ pc'[p] = "pace"]_vars

\* a pass over two targets has returned (2, 0): both sends returned, the
\* first with a receipt without id, and the map holds the second's record only
C23_Witness ==
    \E p \in Procs :
        /\ PassReturned(p)
        /\ entry[p] = "handler"
        /\ Len(group_list[p]) = 2
        /\ Len(SentEvents(trace[p])) = 2
        /\ SentEvents(trace[p])[1].id = None
        /\ SentEvents(trace[p])[2].id # None
        /\ ret[p] = <<2, 0>>
        /\ Len(last_broadcast_msg_ids) = 1

\* the records of the map that invocation g of a broadcast wrote
RecordsOf(g) == SelectSeq(last_broadcast_msg_ids, LAMBDA r : GenOf(r.id) = g)

\* the elements of a sequence
Range(s) == {s[i] : i \in 1..Len(s)}

\* the record the claim expects for a "sent" event of process p
ExpectedRecord(p, e) ==
    [key |-> IdentityKey(group_list[p][e.i]), id |-> e.id]

\* the "sent" events of process p whose receipt carried an id
Recorded(p) == SelectSeq(SentEvents(trace[p]), LAMBDA e : e.id # None)

\* C24: the records a distribution pass writes, on the ordinary route and on
\* the forward route alike, are exactly one per send that returned an id:
\* keyed by the identity key of the target ("groupId:channelId" with a
\* channel id, else groupId) and holding the integer form of the id of the
\* receipt.
C24_RecordsKeyedByIdentity ==
    \A p \in Procs :
        route[p] \in {"normal", "forward"} /\ pc[p] # "sending" =>
            Range(RecordsOf(myGen[p])) =
                {ExpectedRecord(p, Recorded(p)[k]) : k \in 1..Len(Recorded(p))}

\* the part of C24 that holds: on the ordinary route, and on the forward
\* route for targets without channel id
C24_RecordsKeyedByGroupKey ==
    \A p \in Procs :
        route[p] \in {"normal", "forward"} /\ pc[p] # "sending" =>
            Range(RecordsOf(myGen[p])) =
                {[key |-> GroupKey(route[p], group_list[p][Recorded(p)[k].i]),
                  id |-> Recorded(p)[k].id] : k \in 1..Len(Recorded(p))}

\* a forward pass has sent to a target with a channel id and recorded the id
C24_ForwardToChannel ==
    \E p \in Procs :
        /\ PassReturned(p)
        /\ route[p] = "forward"
        /\ Len(Recorded(p)) = 1
        /\ group_list[p][Recorded(p)[1].i].channel_id # None

\* the send calls of a routing that was carried out for at least one target
Routed == call.fn = "route" /\ call.done /\ call.arg.n > 0

\* the platform delivers forward bundles natively: qq with a OneBot V11 bot
NativeForward(b) == b.platform = "qq" /\ b.v11

\* the message holds a forward segment with nodes, alone or among others
HasForward(m) == \E i \in 1..Len(m.segs) : m.segs[i] = "ref"

\* every call of a list of send calls is the call c
AllCalls(calls, c) == \A i \in 1..Len(calls) : calls[i] = c

\* C25 (as claimed): for every target the native forward send is called
\* exactly when the message is, or reduces to, one forward bundle and the bot
\* is a OneBot V11 bot on qq; in every other case the ordinary send is called.
C25_ForwardExactlyWhenNative ==
    Routed =>
        /\ Len(call.out.val) = call.arg.n
        /\ IF NativeForward(call.arg.bot) /\ HasForward(call.arg.message)
               THEN AllCalls(call.out.val, "send_group_forward_msg")
               ELSE AllCalls(call.out.val, "message.send")

\* C25 (amended): as claimed when the forward nodes built from the message
\* are not empty; a message that is one forward segment whose nodes all
\* convert to nothing has no send call at all on qq with a OneBot V11 bot.
\* A forward segment among other segments goes the forward way too, as one
\* node.  All send calls of one broadcast are of the same kind.
C25_ForwardWhenNativeAndNodes ==
    Routed =>
        LET m == call.arg.message
            native == NativeForward(call.arg.bot) /\ HasForward(m)
            no_nodes == m.segs = <<"ref">> /\ m.void
        IN  /\ native /\ no_nodes => call.out.val = <<>>
            /\ native /\ ~no_nodes =>
                  /\ Len(call.out.val) = call.arg.n
                  /\ AllCalls(call.out.val, "send_group_forward_msg")
            /\ ~native =>
                  /\ Len(call.out.val) = call.arg.n
                  /\ AllCalls(call.out.val, "message.send")
            /\ \A i, j \in 1..Len(call.out.val) : call.out.val[i] = call.out.val[j]

\* a text with a forward segment was routed for two targets on qq with a
\* OneBot V11 bot: two native forward sends
C25_Witness ==
    /\ Routed
    /\ NativeForward(call.arg.bot)
    /\ call.arg.message.segs = <<"text", "ref">>
    /\ call.out.val = <<"send_group_forward_msg", "send_group_forward_msg">>

\* the pair returned by a target resolution that was carried out
Targeted == call.fn = "targets" /\ call.done

\* the position of row g in the list T of distinct rows
Pos(T, g) == CHOOSE i \in 1..Len(T) : T[i] = g

\* C26: get_broadcast_target_groups returns (target_groups, enabled_groups)
\* where enabled_groups holds exactly the rows of target_groups the broadcast
\* task is not blocked for, each once and in the order of target_groups; for
\* a command that comes from no group target_groups is the whole directory.
C26_EnabledIsUnblockedSublist ==
    Targeted =>
        LET T == call.out.val[1]
            E == call.out.val[2]
        IN  /\ Range(E) = {g \in Range(T) : g.group_id \notin call.arg.blocked}
            /\ Cardinality(Range(E)) = Len(E)
            /\ \A i, j \in 1..Len(E) : i < j => Pos(T, E[i]) < Pos(T, E[j])
            /\ call.arg.e.group_id = None => T = get_group_list(call.arg.bot)

\* a command from outside any group resolved three targets of which the two
\* rows of the unblocked group are enabled
C26_Witness ==
    /\ Targeted
    /\ call.arg.e = NoAddressGroup
    /\ Len(call.out.val[1]) = 3
    /\ Len(call.out.val[2]) = 2
    /\ call.arg.blocked = {2}

\* a call of _process_forward_content that was carried out
Resolved == call.fn = "forward" /\ call.done

\* the inline content of a forward part was parsed to a list of nodes
InlineParsed(fwd) ==
    \/ fwd.content.form = "json_list"
    \/ fwd.content.form = "list" /\ fwd.content.nodes # <<>>

\* the fetch of a forward part is issued and answers a non-empty node list
FetchedNodes(fwd) ==
    /\ ~InlineParsed(fwd)
    /\ fwd.fid # ""
    /\ fwd.answer.kind \in {"list", "messages", "data"}
    /\ fwd.answer.nodes # <<>>

\* every raw node of the list is a dict whose payload is missing or empty
AllWithoutPayload(nodes) ==
    \A i \in 1..Len(nodes) : nodes[i].shape = "dict" /\ Falsy(nodes[i].payload)

\* C27: when a node list was obtained, inline or by a fetch, and every node
\* of it was skipped for a missing or empty payload, _process_forward_content
\* returns exactly the one "content is empty" placeholder node, never [].
C27_AllSkippedGivesEmptyContent ==
    Resolved =>
        LET fwd == call.arg
        IN  /\ InlineParsed(fwd) /\ AllWithoutPayload(fwd.content.nodes) =>
                  /\ ~call.out.raised
                  /\ call.out.val = <<PlaceholderNode("info", EmptyContentText)>>
            /\ FetchedNodes(fwd) /\ AllWithoutPayload(fwd.answer.nodes) =>
                  /\ ~call.out.raised
                  /\ call.out.val = <<PlaceholderNode("info", EmptyContentText)>>

\* the part of C27 that holds: the inline list
C27_InlineAllSkipped ==
    Resolved /\ InlineParsed(call.arg) /\ AllWithoutPayload(call.arg.content.nodes) =>
        /\ ~call.out.raised
        /\ call.out.val = <<PlaceholderNode("info", EmptyContentText)>>
        /\ call.out.fetches = 0

\* a fetch answered one node without payload and the resolver returned []
C27_FetchedAllSkipped ==
    /\ Resolved
    /\ FetchedNodes(call.arg)
    /\ AllWithoutPayload(call.arg.answer.nodes)
    /\ call.out.val = <<>>

\* C28: a forward part whose inline content is absent, empty, no list and no
\* JSON text of a list, and which has no id, is resolved to exactly one
\* placeholder node with author id "0" and the "cannot be resolved" text;
\* no fetch is issued, no node is processed, nothing is raised.
C28_NoContentNoIdUnresolvable ==
    Resolved /\ ~InlineParsed(call.arg) /\ call.arg.fid = "" =>
        /\ ~call.out.raised
        /\ call.out.val = <<CustomNode("0", "error",
                                       Content("str", <<>>, UnresolvableText))>>
        /\ call.out.fetches = 0
        /\ call.out.calls = 0

\* a forward part without id whose inline content is a text that is no JSON
\* list was resolved to the placeholder
C28_Witness ==
    /\ Resolved
    /\ call.arg.fid = ""
    /\ call.arg.content.form = "json_other"
    /\ Len(call.out.val) = 1
    /\ call.out.val[1].content.text = UnresolvableText

\* the fetch of a forward part is issued
FetchIssued(fwd) == ~InlineParsed(fwd) /\ fwd.fid # ""

\* a raw node whose processing raises: no dict, or a payload with a sender
\* that is no dict
RaisingNode(n) == n.shape # "dict" \/ (~Falsy(n.payload) /\ n.sender = "null")

\* the transport raises, or its answer holds no node list or an empty one
FetchFailed(fwd) ==
    \/ fwd.answer.kind \in {"action_failed", "exception", "dict_other"}
    \/ fwd.answer.nodes = <<>>

\* the answer holds nodes and the processing of one of them raises
ProcessingFails(fwd) ==
    /\ ~FetchFailed(fwd)
    /\ \E i \in 1..Len(fwd.answer.nodes) : RaisingNode(fwd.answer.nodes[i])

\* a placeholder node that reports an error
ErrorNode(node) ==
    /\ node.uid = "0"
    /\ node.content.shape = "str"
    /\ node.content.text \in {FetchFailedText, ProcessErrorText}

\* C29 (as claimed): when the fetch fails, answers no nodes, or the node
\* processing after it raises, the result is one error placeholder node with
\* author id "0" and no other node, and nothing is raised.
C29_FetchFailureSinglePlaceholder ==
    Resolved /\ FetchIssued(call.arg)
             /\ (FetchFailed(call.arg) \/ ProcessingFails(call.arg)) =>
        /\ ~call.out.raised
        /\ Len(call.out.val) = 1
        /\ ErrorNode(call.out.val[1])

\* C29 (amended): nothing is raised.  A fetch that fails or answers no nodes
\* gives exactly one error placeholder node with author id "0".  When the
\* processing of a fetched node raises, the nodes built from the nodes before
\* it are kept and the error placeholder follows them as the last node.
C29_FetchFailureEndsWithPlaceholder ==
    Resolved /\ FetchIssued(call.arg) =>
        /\ ~call.out.raised
        /\ call.out.fetches = 1
        /\ FetchFailed(call.arg) =>
              /\ Len(call.out.val) = 1
              /\ ErrorNode(call.out.val[1])
              /\ call.out.val[1].content.text =
                    IF call.arg.answer.kind = "exception" THEN ProcessErrorText
                                                          ELSE FetchFailedText
        /\ ProcessingFails(call.arg) =>
              LET nodes == call.arg.answer.nodes
                  k == CHOOSE i \in 1..Len(nodes) :
                          /\ RaisingNode(nodes[i])
                          /\ \A j \in 1..(i - 1) : ~RaisingNode(nodes[j])
                  n == Len(call.out.val)
              IN  /\ n >= 1 /\ n <= k
                  /\ call.out.val[n] = PlaceholderNode("error", ProcessErrorText)
                  /\ \A j \in 1..(n - 1) : call.out.val[j].uid # "0"

\* a fetch answered a node with content and then one that is no dict: the
\* result is the node built from the first, followed by the placeholder
C29_Witness ==
    /\ Resolved
    /\ FetchIssued(call.arg)
    /\ ProcessingFails(call.arg)
    /\ Len(call.out.val) = 2
    /\ call.out.val[1].uid = "42"
    /\ ErrorNode(call.out.val[2])

\* a Reference with nodes was converted to its wire form below the depth bound
Flattened ==
    /\ call.fn = "towire" /\ call.done
    /\ call.arg.nodes # <<>>
    /\ call.depth < WireDepthLimit

\* the wire form of the content of one node
NodeContent(node, depth) ==
    IF node.content.shape = "uni" THEN ConvertAll(node.content.segs, depth + 1)
    ELSE <<V11Seg("text", Data("text", node.content.text))>>

\* the list the claim describes: node after node, the separator naming the
\* author, the content, the closing separator; nothing for a node without
\* content
Framed(nodes, depth) ==
    LET F[n \in 0..Len(nodes)] ==
            IF n = 0 THEN <<>>
            ELSE IF NodeContent(nodes[n], depth) = <<>> THEN F[n - 1]
            ELSE F[n - 1]
                 \o <<V11Seg("text", Data("text", SeparatorText(nodes[n])))>>
                 \o NodeContent(nodes[n], depth)
                 \o <<V11Seg("text", Data("text", TrailerText))>>
    IN  F[Len(nodes)]

\* C30: the flattened wire form of a forward bundle keeps the nodes in their
\* order, each node's content immediately after the separator that names its
\* author and immediately before the closing separator; a node whose content
\* converts to nothing adds no separator.
C30_NodesFramedInOrder ==
    Flattened => call.out.val = Framed(call.arg.nodes, call.depth)

\* the part of C30 that holds: a bundle with at most one node that has
\* content is framed as described, and a node without content adds nothing
C30_OneNodeFramed ==
    Flattened /\ Cardinality({i \in 1..Len(call.arg.nodes) :
                                NodeContent(call.arg.nodes[i], call.depth) # <<>>}) <= 1
        => call.out.val = Framed(call.arg.nodes, call.depth)

\* two nodes with content were flattened: both separators come first, the
\* second node's before the first's, and the contents follow without them
C30_SeparatorsInFront ==
    /\ Flattened
    /\ Len(call.arg.nodes) = 2
    /\ call.arg.nodes[1].name = "nick"
    /\ call.arg.nodes[2].name = "user1000"
    /\ Len(call.out.val) = 6
    /\ call.out.val[1].data.v = SeparatorText(call.arg.nodes[2])
    /\ call.out.val[2].data.v = SeparatorText(call.arg.nodes[1])
    /\ call.out.val[3].data.v = "hi"
    /\ call.out.val[5].data.v = "yo"

\* a Reference with nodes was converted to its wire form
ToWire == call.fn = "towire" /\ call.done /\ call.arg.nodes # <<>>

\* the number of wire segments of a list that satisfy a test
CountSegs(segs, Test(_)) == Cardinality({i \in 1..Len(segs) : Test(segs[i])})

\* the wire segment is the "too deep" placeholder text
IsTooDeep(seg) == seg.type = "text" /\ seg.data.v = TooDeepText

\* the wire segment is a mention
IsAt(seg) == seg.type = "at"

\* the wire segment is the Text of the innermost node of a nested Reference
IsInnermost(seg) == seg.type = "text" /\ seg.data.v = "hi"

\* the smaller of two numbers
Min(a, b) == IF a < b THEN a ELSE b

\* C31: a Reference met at depth >= 3 becomes exactly the one placeholder
\* text segment and none of its nodes is converted.  A Reference met at depth
\* d < 3 has the segments of its nodes converted at depth d + 1: of n + 1
\* References nested in each other and met at depth d, the levels at depths
\* d .. 2 are converted (one mention each), the one at depth 3 becomes the one
\* placeholder, and nothing below depth 3 is looked at.
C31_WireDepthBound ==
    ToWire =>
        /\ call.depth >= 3 =>
              call.out.val = <<V11Seg("text", Data("text", TooDeepText))>>
        /\ \A n \in 0..MaxNest :
              call.arg = NestedReference(n) /\ call.depth <= 3 =>
                  /\ CountSegs(call.out.val, IsTooDeep) =
                        IF call.depth + n >= 3 THEN 1 ELSE 0
                  /\ CountSegs(call.out.val, IsAt) = Min(n, 3 - call.depth)
                  /\ CountSegs(call.out.val, IsInnermost) =
                        IF call.depth + n >= 3 THEN 0 ELSE 1

\* five References nested in each other were converted from depth 0: three
\* levels with their mentions, then the placeholder
C31_Witness ==
    /\ ToWire
    /\ call.arg = NestedReference(MaxNest)
    /\ call.depth = 0
    /\ CountSegs(call.out.val, IsAt) = 3
    /\ CountSegs(call.out.val, IsTooDeep) = 1

\* the content that is one forward segment of a bundle that refers to itself
SelfInput(kind) ==
    Content("list",
            <<V11Forward(Forward("X",
                Answer(kind, <<RawNode("dict", Content("str", <<>>, "hi"), "ok")>>),
                NoInline))>>, "")

\* the nesting levels below the depth bound that a resolution from depth d
\* goes through
LevelsFrom(d) == IF d >= MAX_FORWARD_DEPTH THEN 0 ELSE MAX_FORWARD_DEPTH - d

\* C32: the resolution of a bundle that refers to itself ends: the depth
\* grows by one with each nesting level, so that from depth d < 3 a bundle
\* whose answer refers to it once is fetched once on each of the levels
\* d .. 2, 3 - d times in all, and one whose answer refers to it twice
\* 2^(3 - d) - 1 times; at depth >= 3 no fetch is issued whatever the content
\* is, and from depth 0 fetches are issued on three levels at most.
C32_SelfReferenceTerminates ==
    Extracted =>
        /\ call.depth >= MAX_FORWARD_DEPTH => call.out.fetches = 0
        /\ call.arg = SelfInput("self") =>
              /\ ~call.out.raised
              /\ call.out.fetches = LevelsFrom(call.depth)
        /\ call.arg = SelfInput("self_twice") =>
              /\ ~call.out.raised
              /\ call.out.fetches = 2 ^ LevelsFrom(call.depth) - 1
        /\ \A n \in 0..MaxNest :
              call.arg = NestedInput(n) /\ call.depth = 0 =>
                  call.out.fetches = IF n < MAX_FORWARD_DEPTH THEN 1 ELSE 0

\* a bundle whose answer refers to it twice was resolved from depth 0 with
\* 1 + 2 + 4 fetches
C32_Witness ==
    /\ Extracted
    /\ call.depth = 0
    /\ call.arg = SelfInput("self_twice")
    /\ call.out.fetches = 7
    /\ Len(call.out.val) = 1

\* the inline content of a forward part is a list or the JSON text of a list
InlineIsList(fwd) == fwd.content.form \in {"list", "json_list"}

\* C34 (as claimed): the fetch is issued only when the inline content could
\* not be parsed into a node list and an id is present; when the inline
\* content is a node list, be it empty or with all its nodes skipped, no
\* fetch is issued.
C34_NoFetchWhenInlineList ==
    Resolved =>
        /\ call.out.fetches = 1 => ~InlineIsList(call.arg) /\ call.arg.fid # ""
        /\ InlineIsList(call.arg) => call.out.fetches = 0

\* C34 (amended): the fetch is issued exactly when an id is present and the
\* inline content is absent or empty (None, "", the empty list), a text
\* that is no JSON list, or a value of another type.  A non-empty inline
\* list, and a JSON text of a list, even of the empty list or of nodes that
\* are all skipped, is resolved without a fetch.
C34_FetchIffNotParsedAndId ==
    Resolved =>
        LET fwd == call.arg
            parsed == \/ fwd.content.form = "json_list"
                      \/ fwd.content.form = "list" /\ Len(fwd.content.nodes) > 0
        IN  /\ call.out.fetches \in {0, 1}
            /\ call.out.fetches = 1 <=> ~parsed /\ fwd.fid # ""
            /\ fwd.content.form = "list" /\ fwd.content.nodes = <<>> /\ fwd.fid # ""
                  => call.out.fetches = 1

\* a forward part with an id whose inline content is the JSON text of the
\* empty list was resolved without a fetch
C34_Witness ==
    /\ Resolved
    /\ call.arg.fid = "X"
    /\ call.arg.content = Inline("json_list", <<>>)
    /\ call.out.fetches = 0
    /\ Len(call.out.val) = 1

\* a forward part with an id whose inline content is the empty list was
\* resolved with a fetch
C34_EmptyListFetched ==
    /\ Resolved
    /\ call.arg.fid = "X"
    /\ call.arg.content = Inline("list", <<>>)
    /\ call.out.fetches = 1

\* the positions of the target list of process p that were skipped or whose
\* send or availability check raised
NotSent(p) ==
    {trace[p][k].i : k \in {j \in 1..Len(trace[p]) :
        trace[p][j].ev \in {"skip_blocked", "skip_noaddr", "send_raised",
                            "check_raised"}}}

\* C35: with broadcasts serialized and the map cleared at the start, after a
\* distribution pass the map holds at most successCount records, every
\* record is keyed by the key of a target whose send succeeded in that pass,
\* and there is no record for a target that was skipped or whose send raised.
C35_RecordsOnlyForSuccesses ==
    \A p \in Procs :
        PassReturned(p) /\ entry[p] = "handler" =>
            /\ Len(last_broadcast_msg_ids) <= ret[p][1]
            /\ \A k \in 1..Len(last_broadcast_msg_ids) :
                  \E j \in 1..Len(SentEvents(trace[p])) :
                      LET e == SentEvents(trace[p])[j]
                      IN  /\ e.id = last_broadcast_msg_ids[k].id
                          /\ last_broadcast_msg_ids[k].key =
                                GroupKey(route[p], group_list[p][e.i])
            /\ \A i \in NotSent(p) : \A k \in 1..Len(last_broadcast_msg_ids) :
                  last_broadcast_msg_ids[k].id # FreshId(myGen[p], group_list[p][i])

\* a pass over two targets after an earlier broadcast had left records: one
\* send raised, the other returned a receipt with an id, and the map holds
\* the one record of this pass
C35_Witness ==
    \E p \in Procs :
        /\ PassReturned(p) /\ entry[p] = "handler"
        /\ replaced
        /\ CountEv(trace[p], "send_raised") = 1
        /\ Len(Recorded(p)) = 1
        /\ ret[p] = <<1, 1>>
        /\ Len(last_broadcast_msg_ids) = 1

\* the id the map holds under key k, None when it holds none
IdUnder(d, k) ==
    IF \E i \in 1..Len(d) : d[i].key = k
        THEN (CHOOSE r \in Range(d) : r.key = k).id
        ELSE None

\* the keys of the map
KeysOf(d) == {d[i].key : i \in 1..Len(d)}

\* the event the step appends to the trace of process p during a
\* distribution pass
Handled(p) ==
    /\ route[p] \in {"normal", "forward"}
    /\ pc[p] \in {"check", "send", "sending"}
    /\ Len(trace'[p]) = Len(trace[p]) + 1

\* what one step of handling a target does to the map
HandlingFrame(p) ==
    Handled(p) =>
        LET e == trace'[p][Len(trace'[p])]
            own == GroupKey(route[p], group_list[p][e.i])
        IN  IF e.ev = "sent" /\ e.id # None
                THEN /\ IdUnder(last_broadcast_msg_ids', own) = e.id
                     /\ KeysOf(last_broadcast_msg_ids') =
                            KeysOf(last_broadcast_msg_ids) \cup {own}
                     /\ \A k \in KeysOf(last_broadcast_msg_ids) \ {own} :
                            IdUnder(last_broadcast_msg_ids', k) =
                                IdUnder(last_broadcast_msg_ids, k)
                ELSE last_broadcast_msg_ids' = last_broadcast_msg_ids

\* C36: handling a target that is skipped, or whose send raises, leaves the
\* map exactly as it was; only a send that returned an id that can be
\* extracted changes the map, and it adds or overwrites the entry under the
\* key of that target and no other entry.
C36_OnlySuccessfulSendWrites == [][\A p \in Procs : HandlingFrame(p)]_vars

\* a second pass, begun without a clear, has overwritten the entry of one
\* target and left the entry another target got from the pass before
C36_Witness ==
    \E p \in Procs :
        /\ pc[p] = "pace" /\ route[p] = "normal"
        /\ entry[p] = "direct"
        /\ myGen[p] = 2
        /\ prev.kind = "broadcast" /\ prev.records = 2
        /\ Len(last_broadcast_msg_ids) = 2
        /\ Len(RecordsOf(1)) = 1
        /\ Len(RecordsOf(2)) = 1
        /\ CountEv(trace[p], "send_raised") + Skips(trace[p]) = 1

\* a step of a broadcast command that ends without a distribution: its
\* start, the answer of get_broadcast_target_groups, its return
NoTargetStep(p) ==
    \/ pc[p] = "idle" /\ pc'[p] = "resolve"
    \/ pc[p] = "resolve" /\ pc'[p] = "noop"
    \/ pc[p] = "noop"

\* a recall that follows a broadcast, with nothing but broadcast commands
\* without eligible targets between them, works on the records that
\* broadcast left
RecallSeesEarlierRecords ==
    \A p \in Procs :
        entry[p] = "recall" /\ prev.kind = "broadcast" =>
            /\ Len(msg_ids_to_recall[p]) = prev.records
            /\ \A k \in 1..Len(msg_ids_to_recall[p]) :
                  GenOf(msg_ids_to_recall[p][k].id) = gen
            /\ pc[p] = "recall_returned" =>
                  CountEv(trace[p], "delete") = prev.records

\* C37: a broadcast command that finds no eligible target (an empty target
\* set or an empty enabled set) leaves the map unchanged, and a recall
\* issued after it still deletes the messages the earlier broadcast recorded.
C37_NoTargetsKeepsRecords ==
    /\ [][\A p \in Procs : NoTargetStep(p) =>
            last_broadcast_msg_ids' = last_broadcast_msg_ids]_vars
    /\ []RecallSeesEarlierRecords

\* a broadcast command has found no eligible target after a broadcast that
\* left records, and the records are in the map
C37_Witness ==
    \E p \in Procs :
        /\ pc[p] = "noop"
        /\ prev.kind = "broadcast" /\ prev.records >= 1
        /\ Len(last_broadcast_msg_ids) = prev.records

\* a recall has gone through a copy with records and every delete was
\* answered with one of the two failures that are only logged
AllBenignRecall(p) ==
    /\ pc[p] = "recall_returned"
    /\ msg_ids_to_recall[p] # <<>>
    /\ CountEv(trace[p], "benign") = Len(msg_ids_to_recall[p])

\* C38: a recall over a map with records in which every delete is classified
\* as benign returns (0, 0), the value of a recall over an empty map, clears
\* the map, and the recall handler reports it as "no recent broadcast record
\* found".
C38_AllBenignReportedAsNoRecord ==
    \A p \in Procs :
        /\ AllBenignRecall(p) =>
              /\ ret[p] = <<0, 0>>
              /\ last_broadcast_msg_ids = <<>>
              /\ RecallReport(ret[p]) = "no_record"
        /\ pc[p] = "recall_returned" /\ msg_ids_to_recall[p] = <<>> =>
              /\ ret[p] = <<0, 0>>
              /\ RecallReport(ret[p]) = "no_record"

\* a recall has issued a delete for each of two records, both were answered
\* as already gone, and it has returned
C38_Witness ==
    \E p \in Procs :
        /\ AllBenignRecall(p)
        /\ Len(msg_ids_to_recall[p]) = 2
        /\ CountEv(trace[p], "delete") = 2

\* the ids of the receipts process p got for its sends to the target with
\* group key k
SentIds(p, k) ==
    {e.id : e \in {x \in Range(SentEvents(trace[p])) :
                        /\ x.id # None
                        /\ GroupKey(route[p], group_list[p][x.i]) = k}}

\* the keys the bot's groups are recorded under
AllKeys == {NormalKey(g) : g \in Range(get_group_list(ConcurrentBot))}

\* two broadcasts overlapped and both passes have returned: q is the one
\* that started second
BothReturned(p, q) ==
    /\ PassReturned(p) /\ PassReturned(q)
    /\ myGen[p] < myGen[q]

\* what the map can hold under key k after two overlapping broadcasts: the
\* id of a send of the second, or the id of a send of the first (recorded
\* after the second's send or clear), or nothing when only the first sent
\* to k and the second's clear came later; never a record of a broadcast
\* before them
RaceOutcome(p, q, k) ==
    LET n == IdUnder(last_broadcast_msg_ids, k)
    IN  /\ n \in SentIds(p, k) \cup SentIds(q, k) \cup {None}
        /\ SentIds(q, k) # {} => n # None
        /\ SentIds(p, k) = {} /\ SentIds(q, k) = {} => n = None

\* a step of process p that records the id of a send, and a step that
\* starts a distribution of the handler
RaceStep(p) ==
    /\ Handled(p) => HandlingFrame(p)
    /\ Handled(p) =>
          LET e == trace'[p][Len(trace'[p])]
          IN  e.ev = "sent" /\ e.id # None =>
                IdUnder(last_broadcast_msg_ids',
                        GroupKey(route[p], group_list[p][e.i])) = e.id
    /\ pc[p] = "notify" /\ pc'[p] = "distribute" => last_broadcast_msg_ids' = <<>>

\* C33: when a second broadcast starts before the first has completed, no
\* mutual exclusion is applied: the clear at the start of the second removes
\* the records the first wrote so far, the first's later sends still write
\* records, and under a key both deliver to the map ends with the id of the
\* send that was recorded last.
C33_LastWriterWins ==
    /\ [][\A p \in Procs : RaceStep(p)]_vars
    /\ [](\A p, q \in Procs : BothReturned(p, q) =>
              \A k \in AllKeys : RaceOutcome(p, q, k))

\* two broadcasts overlapped, both got an id for their send to group 1 and
\* to group 2: the map ends with the id of the first broadcast under the key
\* of group 1 and with the id of the second under the key of group 2
C33_Witness ==
    \E p, q \in Procs :
        /\ BothReturned(p, q)
        /\ \A k \in AllKeys : SentIds(p, k) # {} /\ SentIds(q, k) # {}
        /\ IdUnder(last_broadcast_msg_ids, <<1>>) \in SentIds(p, <<1>>)
        /\ IdUnder(last_broadcast_msg_ids, <<2>>) \in SentIds(q, <<2>>)

\* the first broadcast got an id for a send and is still running, and the
\* clear of the second has removed the record
C33_FirstRecordsCleared ==
    \E p, q \in Procs :
        /\ myGen[p] # 0 /\ myGen[p] < myGen[q]
        /\ pc[p] \in {"pace", "sleeping"}
        /\ Len(Recorded(p)) = 1
        /\ last_broadcast_msg_ids = <<>>

\* the delete calls of a trace, in order
DeleteEvents(t) == EventsOf(t, {"delete"})

\* the delete calls of a recall are for the records of its copy, one each,
\* in the order of the copy
DeletesFollowSnapshot(p) ==
    LET d == DeleteEvents(trace[p])
    IN  /\ Len(d) <= Len(msg_ids_to_recall[p])
        /\ \A j \in 1..Len(d) :
              d[j].i = j /\ d[j].id = msg_ids_to_recall[p][j].id
        /\ pc[p] = "recall_returned" => Len(d) = Len(msg_ids_to_recall[p])

\* the steps of a recall: its start copies the map, the copy stays as it is
\* while the recall runs, and the return after the loop empties the map
SnapshotStep(p) ==
    /\ pc[p] = "idle" /\ entry'[p] = "recall" =>
          msg_ids_to_recall'[p] = last_broadcast_msg_ids
    /\ entry[p] = "recall" /\ entry'[p] = "recall" =>
          msg_ids_to_recall'[p] = msg_ids_to_recall[p]
    /\ pc[p] = "delete" /\ pc'[p] = "recall_returned" =>
          last_broadcast_msg_ids' = <<>>

\* C39: recall_last_broadcast works on a copy of the map taken when it
\* starts: it issues one delete call for each record of the copy and for no
\* other, and its clear at the end removes every record the map holds at
\* that moment, so that a record a broadcast wrote while the recall was
\* suspended is removed without a delete call for it.
C39_RecallWorksOnSnapshot ==
    /\ [][\A p \in Procs : SnapshotStep(p)]_vars
    /\ [](\A p \in Procs : entry[p] = "recall" => DeletesFollowSnapshot(p))

\* a recall has gone through the records of the earlier broadcast and has
\* returned; a broadcast that started meanwhile has got an id for a send and
\* is still in its loop; the map is empty and no delete was issued for that id
C39_Witness ==
    \E p, q \in Procs :
        /\ pc[p] = "recall_returned"
        /\ msg_ids_to_recall[p] = EarlierRecords
        /\ Len(DeleteEvents(trace[p])) = Len(EarlierRecords)
        /\ pc[q] \in {"pace", "sleeping"}
        /\ Len(Recorded(q)) = 1
        /\ \A j \in 1..Len(DeleteEvents(trace[p])) :
              DeleteEvents(trace[p])[j].id # Recorded(q)[1].id
        /\ last_broadcast_msg_ids = <<>>

====
